---------------------------- MODULE Spec2Model ----------------------------
(***************************************************************************)
(* Model of the hunt pipeline of tygr-ui: the EventParser, the             *)
(* ProcessManager, the HuntController, the hunt queue and the hunt worker. *)
(*                                                                         *)
(* Text is modelled as a sequence of one-character strings.  A reserved    *)
(* marker ("###VULN_EVENT###", ...) is modelled as the two symbols "#" and *)
(* a letter, so that a chunk boundary can fall inside a marker.  A JSON    *)
(* object is "{", member symbols, "}"; each member symbol stands for one   *)
(* "key":value pair (see JsonMember).  "0" stands for the JSON literal     *)
(* null.  Timestamps of parsed events are not modelled.                    *)
(***************************************************************************)
EXTENDS Integers, Sequences, FiniteSets, TLC

VARIABLES
    \* --- EventParser session driven directly (ParserSpec) ---
    input,      \* the whole stream the chunks are cut from
    pos,        \* number of symbols of input already passed to parse()
    buffer,     \* EventParser.buffer
    events,     \* all ParsedEvents returned so far, in order
    pstate,     \* "feeding" | "flushed"
    midCut      \* a chunk boundary fell inside a line (buffer non-empty)

parserVars == <<input, pos, buffer, events, pstate, midCut>>

VARIABLES
    \* --- ProcessManager and the child process it supervises ---
    pmProcess,   \* ProcessManager.process: "null" | "child"
    pmKilled,    \* ProcessManager.killed
    pmExitCode,  \* ProcessManager.exitCode: "null" or a code
    childState,  \* the spawned process: "none" | "alive" | "spawnFailed" | "errored" | "exited"
    childKilled, \* ChildProcess.killed: a signal was delivered through kill()
    signals,     \* signals delivered to the child through kill(), in order
    timerArmed,  \* the setTimeout of stop() is pending
    timerLeft,   \* seconds until it is due
    timerRan,    \* its callback has run
    pmLog        \* what the owner of the ProcessManager saw: events emitted, errors thrown (PMSpec)

VARIABLES
    \* --- database, queue and websocket side ---
    hunt,            \* the Hunt row
    vulnRows,        \* Vulnerability rows: their severities, in insertion order
    huntEvents,      \* HuntEvent rows, in insertion order
    agents,          \* Agent rows: id -> status
    broadcasts,      \* messages handed to the WebSocketManager, in order
    jobState,        \* the BullMQ job: "none" | "waiting" | "active" | "completed" | "removed"
    jobProgress,     \* job.progress
    \* --- hunt worker ---
    activeProcesses, \* keys of the activeProcesses map
    eventSequence,   \* processHuntJob: eventSequence
    wVulnCount,      \* processHuntJob: vulnerabilityCount
    output,          \* chunks the process has still to write to stdout
    mainPc,          \* processHuntJob: the call it awaits
    mainErr,         \* processHuntJob: message of the error caught
    handlers,        \* listener invocations in flight
    \* --- stopHunt request ---
    stopPc,          \* stopHunt: the call it awaits
    \* --- history ---
    script,          \* the whole stdout of the process, as chosen initially
    stopHeld,        \* stopHunt succeeded while the worker held the running process
    stopJobState     \* the state of the job when stopHunt was called, "" before any call

VARIABLES
    \* --- startHunt request (ControllerSpec) ---
    huntExists,      \* the Hunt row has been created
    startPc,         \* startHunt: the call it awaits
    startErr         \* message of the error startHunt threw to its caller, "" if none

ctlVars == <<huntExists, startPc, startErr>>

VARIABLES
    \* --- the hunt queue with several hunts (QueueSpec) ---
    qJobs,           \* the jobs the queue holds: job id -> [huntId, state]
    qAdds            \* number of enqueueHunt calls made for each hunt

queueVars == <<qJobs, qAdds>>

VARIABLES
    \* --- WebSocketManager and its socket.io server (SocketSpec) ---
    connections,     \* WebSocketManager.connections: the client ids it holds
    sockets,         \* the sockets connected to the server
    rooms,           \* hunt id -> the sockets that joined "hunt:<id>"
    published,       \* the messages broadcast so far: the subscribers of their hunt then
    received,        \* socket -> the numbers of the messages delivered to it
    lastEmit         \* event name and hunt of the last broadcast, "" before any

socketVars == <<connections, sockets, rooms, published, received, lastEmit>>

VARIABLES
    \* --- processHuntJob with a failing store and queue retries (RetrySpec) ---
    storeUp,         \* the database answers the calls made now
    attemptsMade,    \* job.attemptsMade: attempts started so far
    retryJob,        \* state of the job in the queue
    retryPc,         \* processHuntJob of the current attempt: the call it awaits
    procs,           \* attempt -> "alive" / "exited", for the processes spawned
    tracked          \* activeProcesses.get(huntId): the attempt that set it, 0 if none

retryVars == <<storeUp, attemptsMade, retryJob, retryPc, procs, tracked>>

VARIABLES
    \* --- updateHuntStatus and the timestamps of the Hunt row (ClockSpec) ---
    now,             \* the clock, in seconds
    stamps,          \* the Hunt row: [status, startedAt, completedAt, duration]
    statusPc,        \* updateHuntStatus: "idle" or the terminal status being written
    statusData       \* the data object built for the pending update

clockVars == <<now, stamps, statusPc, statusData>>

VARIABLES
    \* --- listener invocations that rejected (FaultSpec) ---
    unhandledRejections   \* promises of async listeners that rejected, never awaited

VARIABLES
    \* --- the WebSocket manager singleton of each operating-system process ---
    wsManagerInstance,   \* per process: TRUE when initWebSocketManager has run in it
    statusCalls,         \* the updateHuntStatus calls that have updated the hunt
    statusEmits          \* the 'hunt:status' broadcasts those calls have produced

deployVars == <<wsManagerInstance, statusCalls, statusEmits>>

VARIABLES
    \* --- the events the attempts of a job persist (RetrySpec) ---
    attemptSequence,     \* eventSequence of the running attempt of the job
    persisted            \* the rows of huntEvent: [attempt, sequenceNumber]

seqVars == <<attemptSequence, persisted>>

VARIABLES
    \* --- the agent table of the store, for the agents of several hunts ---
    agentRows,           \* the rows of agent by id: [huntId, status]
    lastUpsert           \* the last upsertAgent call: [hunt, id]

agentVars == <<agentRows, lastUpsert>>

extraVars == <<deployVars, seqVars, agentVars>>
miscVars == <<unhandledRejections, extraVars>>

sideVars == <<socketVars, retryVars, clockVars, miscVars>>

workerVars == <<hunt, vulnRows, huntEvents, agents, broadcasts, jobState, jobProgress,
                activeProcesses, eventSequence, wVulnCount, output, mainPc, mainErr,
                handlers, stopPc, script, stopHeld, stopJobState, ctlVars, queueVars,
                sideVars>>

pmVars == <<pmProcess, pmKilled, pmExitCode, childState, childKilled, signals,
            timerArmed, timerLeft, timerRan>>

(***************************************************************************)
(* Bounds                                                                  *)
(***************************************************************************)
MaxLen == 4

(***************************************************************************)
(* Text helpers (String.prototype.trim / split / includes / indexOf)       *)
(***************************************************************************)
NL == "\n"
SP == " "
WhiteSpace == {SP, NL}

Min(S) == CHOOSE x \in S : \A y \in S : x <= y
Max(S) == CHOOSE x \in S : \A y \in S : x >= y

Trim(s) ==
    LET keep == {i \in 1..Len(s) : s[i] \notin WhiteSpace}
    IN  IF keep = {} THEN <<>> ELSE SubSeq(s, Min(keep), Max(keep))

\* "a\nb".split('\n') = ["a","b"]; "a\n".split('\n') = ["a",""]; "".split('\n') = [""]
RECURSIVE Split(_)
Split(s) ==
    LET nls == {i \in 1..Len(s) : s[i] = NL}
    IN  IF nls = {} THEN <<s>>
        ELSE <<SubSeq(s, 1, Min(nls) - 1)>> \o Split(SubSeq(s, Min(nls) + 1, Len(s)))

MatchAt(s, m, i) == i + Len(m) - 1 <= Len(s) /\ SubSeq(s, i, i + Len(m) - 1) = m
Includes(s, m) == \E i \in 1..Len(s) : MatchAt(s, m, i)
\* 1-based index of the first occurrence (the caller checks Includes first)
IndexOf(s, m) == Min({i \in 1..Len(s) : MatchAt(s, m, i)})

(***************************************************************************)
(* JSON.parse on the modelled texts                                        *)
(***************************************************************************)
\* member symbol -> the "key":value pair it stands for
JsonMember ==
    [h |-> [key |-> "severity", value |-> "high"],
     l |-> [key |-> "severity", value |-> "low"],
     w |-> [key |-> "severity", value |-> "weird"],
     g |-> [key |-> "progress", value |-> "45"],
     z |-> [key |-> "progress", value |-> "0"],
     o |-> [key |-> "progress", value |-> "150"],
     q |-> [key |-> "progress", value |-> "high"],
     p |-> [key |-> "phase", value |-> "scan"],
     i |-> [key |-> "agentId", value |-> "a1"],
     j |-> [key |-> "agentId", value |-> "a2"],
     T |-> [key |-> "type", value |-> "Progress-Update"],
     L |-> [key |-> "type", value |-> "LOG"],
     U |-> [key |-> "type", value |-> "heartbeat"],
     E |-> [key |-> "type", value |-> ""]]

MemberSyms == DOMAIN JsonMember

\* the object a sequence of member symbols denotes: a later member overrides
\* an earlier one with the same key
ObjectOf(ms) ==
    LET keys == {JsonMember[ms[k]].key : k \in 1..Len(ms)}
        last(key) == Max({k \in 1..Len(ms) : JsonMember[ms[k]].key = key})
    IN  [key \in keys |-> JsonMember[ms[last(key)]].value]

IsJsonObject(s) ==
    /\ Len(s) >= 2
    /\ s[1] = "{"
    /\ s[Len(s)] = "}"
    /\ \A k \in 2..(Len(s) - 1) : s[k] \in MemberSyms

IsJsonNull(s) == s = <<"0">>

\* JSON.parse throws exactly when this is FALSE
JsonValid(s) == IsJsonObject(s) \/ IsJsonNull(s)

\* value of JSON.parse for an object text
JsonObject(s) == ObjectOf(SubSeq(s, 2, Len(s) - 1))

EmptyPayload == ObjectOf(<<>>)

(***************************************************************************)
(* EventParser                                                             *)
(***************************************************************************)
\* eventMarkers in Object.entries order; "###NAME###" is modelled as "#" + letter
eventMarkers ==
    << [name |-> "HUNT_STARTED",   marker |-> <<"#", "S">>],
       [name |-> "HUNT_COMPLETED", marker |-> <<"#", "C">>],
       [name |-> "HUNT_FAILED",    marker |-> <<"#", "F">>],
       [name |-> "AGENT_CREATED",  marker |-> <<"#", "a">>],
       [name |-> "AGENT_STARTED",  marker |-> <<"#", "b">>],
       [name |-> "AGENT_COMPLETED",marker |-> <<"#", "c">>],
       [name |-> "AGENT_FAILED",   marker |-> <<"#", "d">>],
       [name |-> "TOOL_EXECUTION", marker |-> <<"#", "t">>],
       [name |-> "VULN_EVENT",     marker |-> <<"#", "V">>],
       [name |-> "PHASE_CHANGED",  marker |-> <<"#", "H">>],
       [name |-> "PROGRESS",       marker |-> <<"#", "P">>] >>

markerToEventType(markerName) ==
    CASE markerName = "HUNT_STARTED"    -> "hunt_started"
      [] markerName = "HUNT_COMPLETED"  -> "hunt_completed"
      [] markerName = "HUNT_FAILED"     -> "hunt_failed"
      [] markerName = "AGENT_CREATED"   -> "agent_created"
      [] markerName = "AGENT_STARTED"   -> "agent_started"
      [] markerName = "AGENT_COMPLETED" -> "agent_completed"
      [] markerName = "AGENT_FAILED"    -> "agent_failed"
      [] markerName = "TOOL_EXECUTION"  -> "tool_execution"
      [] markerName = "VULN_EVENT"      -> "vulnerability_found"
      [] markerName = "PHASE_CHANGED"   -> "phase_changed"
      [] markerName = "PROGRESS"        -> "progress_update"
      [] OTHER                          -> "unknown"

validTypes ==
    {"hunt_started", "hunt_completed", "hunt_failed", "agent_created",
     "agent_started", "agent_completed", "agent_failed", "tool_execution",
     "vulnerability_found", "phase_changed", "progress_update", "log"}

\* type.toLowerCase().replace(/-/g, '_') on the type strings of JsonMember
LowerUnderscore(type) ==
    CASE type = "Progress-Update" -> "progress_update"
      [] type = "LOG"             -> "log"
      [] OTHER                    -> type

\* a normalizeEventType that compares the type string as it was written
normalizeEventType_NoFold(type) ==
    IF type \in validTypes THEN type ELSE "unknown"

normalizeEventType(type) ==
    LET normalized == LowerUnderscore(type)
    IN  IF normalized \in validTypes THEN normalized ELSE "unknown"

\* The result of parseLine / parseMarkedEvent is <<>> for null and <<event>>
\* otherwise.
parseMarkedEvent(line, marker, type) ==
    LET jsonStart == IndexOf(line, marker) + Len(marker)
        jsonStr   == Trim(SubSeq(line, jsonStart, Len(line)))
    IN  IF jsonStr = <<>>
        THEN << [type |-> type, data |-> EmptyPayload, raw |-> line] >>
        ELSE IF ~JsonValid(jsonStr) THEN <<>>      \* JSON.parse throws: caught, null
        ELSE IF IsJsonNull(jsonStr) THEN <<>>      \* data.timestamp throws: caught, null
        ELSE << [type |-> type, data |-> JsonObject(jsonStr), raw |-> line] >>

parseLine(line) ==
    LET trimmed == Trim(line)
        hits    == {k \in 1..Len(eventMarkers) : Includes(trimmed, eventMarkers[k].marker)}
        logEvent == << [type |-> "log", data |-> [message |-> trimmed], raw |-> trimmed] >>
    IN  IF trimmed = <<>> THEN <<>>
        ELSE IF hits # {}
        THEN LET m == eventMarkers[Min(hits)]
             IN  parseMarkedEvent(trimmed, m.marker, markerToEventType(m.name))
        ELSE IF trimmed[1] = "{" /\ trimmed[Len(trimmed)] = "}" /\ JsonValid(trimmed)
        THEN LET data == JsonObject(trimmed)
             IN  IF "type" \in DOMAIN data /\ data["type"] # ""    \* if (data.type)
                 THEN << [type |-> normalizeEventType(data["type"]),
                          data |-> data, raw |-> trimmed] >>
                 ELSE logEvent
        ELSE logEvent

RECURSIVE parseLines(_)
parseLines(lines) ==
    IF lines = <<>> THEN <<>> ELSE parseLine(Head(lines)) \o parseLines(Tail(lines))

\* a parse() that forgets the buffered fragment of the previous call
parse_DropsBuffer(buf, data) ==
    LET lines == Split(data)
    IN  [buffer |-> lines[Len(lines)],
         events |-> parseLines(SubSeq(lines, 1, Len(lines) - 1))]

\* parse(data): the new buffer and the events returned
parse(buf, data) ==
    LET lines == Split(buf \o data)
    IN  [buffer |-> lines[Len(lines)],                       \* lines.pop() || ''
         events |-> parseLines(SubSeq(lines, 1, Len(lines) - 1))]

\* flush(): a blank buffer is left as it is
flush(buf) ==
    IF Trim(buf) = <<>> THEN [buffer |-> buf, events |-> <<>>]
    ELSE [buffer |-> <<>>, events |-> parseLine(buf)]

(***************************************************************************)
(* ProcessManager                                                          *)
(***************************************************************************)
GracePeriod == 5                       \* setTimeout(..., 5000), in seconds
ExitCodes == {"0", "1", "137", "null"} \* "null": terminated by a signal

PMIdle ==
    /\ pmProcess = "null"
    /\ pmKilled = FALSE
    /\ pmExitCode = "null"
    /\ childState = "none"
    /\ childKilled = FALSE
    /\ signals = <<>>
    /\ timerArmed = FALSE
    /\ timerLeft = 0
    /\ timerRan = FALSE

\* ChildProcess.kill(sig): the signal is delivered, and ChildProcess.killed
\* set, only while the process has not exited
ChildKill(sig) ==
    IF childState = "alive"
    THEN /\ signals' = Append(signals, sig)
         /\ childKilled' = TRUE
    ELSE UNCHANGED <<signals, childKilled>>

\* start() guarded by "no process is running" instead of "no process"
PMStart_Restartable(outcome) ==
    /\ pmProcess = "null" \/ childState \in {"exited", "errored"}
    /\ pmProcess' = "child"
    /\ childState' = outcome
    /\ UNCHANGED <<pmKilled, pmExitCode, childKilled, signals, timerArmed, timerLeft, timerRan>>

\* start(): spawn; a spawn failure is reported later by an 'error' event
PMStart(outcome) ==
    /\ pmProcess = "null"
    /\ pmProcess' = "child"
    /\ childState' = outcome
    /\ UNCHANGED <<pmKilled, pmExitCode, childKilled, signals, timerArmed, timerLeft, timerRan>>

\* start() on an instance that already has a process throws
PMStartThrows == pmProcess # "null"

\* stop() without the early return on this.killed
PMStop_NoKilledCheck ==
    IF pmProcess = "null"
    THEN UNCHANGED pmVars
    ELSE /\ pmKilled' = TRUE
         /\ ChildKill("SIGTERM")
         /\ timerArmed' = TRUE
         /\ timerLeft' = GracePeriod
         /\ UNCHANGED <<pmProcess, pmExitCode, childState, timerRan>>

\* stop()
PMStop ==
    IF pmProcess = "null" \/ pmKilled
    THEN UNCHANGED pmVars
    ELSE /\ pmKilled' = TRUE
         /\ ChildKill("SIGTERM")
         /\ timerArmed' = TRUE
         /\ timerLeft' = GracePeriod
         /\ UNCHANGED <<pmProcess, pmExitCode, childState, timerRan>>

\* the callback of the setTimeout in stop()
PMTimerCallback ==
    /\ timerArmed
    /\ timerLeft = 0
    /\ timerArmed' = FALSE
    /\ timerRan' = TRUE
    /\ IF pmProcess # "null" /\ ~childKilled
       THEN ChildKill("SIGKILL")
       ELSE UNCHANGED <<signals, childKilled>>
    /\ UNCHANGED <<pmProcess, pmKilled, pmExitCode, childState, timerLeft>>

\* one second passes
PMTick ==
    /\ timerArmed
    /\ timerLeft > 0
    /\ timerLeft' = timerLeft - 1
    /\ UNCHANGED <<pmProcess, pmKilled, pmExitCode, childState, childKilled, signals,
                   timerArmed, timerRan>>

\* the child's 'exit' listener: endTime, exitCode, emit('exit', code, signal)
PMOnExit(code) ==
    /\ childState = "alive"
    /\ childState' = "exited"
    /\ pmExitCode' = code
    /\ UNCHANGED <<pmProcess, pmKilled, childKilled, signals, timerArmed, timerLeft, timerRan>>

\* the child's 'error' listener (spawn failure): emit('error', error)
PMOnError ==
    /\ childState = "spawnFailed"
    /\ childState' = "errored"
    /\ UNCHANGED <<pmProcess, pmKilled, pmExitCode, childKilled, signals,
                   timerArmed, timerLeft, timerRan>>

isRunning == pmProcess # "null" /\ ~pmKilled /\ pmExitCode = "null"
getExitCode == pmExitCode

(***************************************************************************)
(* HuntController, hunt queue and hunt worker: one hunt, one job           *)
(*                                                                         *)
(* Every `await` of a database or queue call is a point where other        *)
(* callbacks run.  A step of a task executes the call it was awaiting and  *)
(* then the synchronous code up to its next await.                         *)
(***************************************************************************)
HuntId == "h1"

TerminalStatuses == {"completed", "failed", "stopped"}

\* the Hunt row after startHunt has created it and enqueued its job
InitialHunt ==
    [status |-> "pending", progress |-> 0, currentPhase |-> "", error |-> "",
     processId |-> "", vulnerabilityCount |-> 0, criticalCount |-> 0,
     highCount |-> 0, mediumCount |-> 0, lowCount |-> 0, infoCount |-> 0]

\* startHunt with a catch block that only rethrows
HuntAfterEnqueueFailure_Unrecorded(h, message) == h

\* startHunt, catch block: the row prisma.hunt.update writes
HuntAfterEnqueueFailure(h, message) ==
    [h EXCEPT !.status = "failed", !.error = message]

\* message of the error huntQueue.add rejects with when Redis is unreachable
EnqueueErrorText == "connect ECONNREFUSED"

\* the counter the switch of addVulnerability increments for a severity
SeverityField ==
    [critical |-> "criticalCount", high |-> "highCount", medium |-> "mediumCount",
     low |-> "lowCount", info |-> "infoCount"]

\* JSON numbers among the member values
NumberValue == [k \in {"0", "45", "150"} |->
                  CASE k = "0" -> 0 [] k = "45" -> 45 [] k = "150" -> 150]
IsNumber(v) == v \in DOMAIN NumberValue

Field(data, key) == IF key \in DOMAIN data THEN data[key] ELSE "undefined"
\* JavaScript truthiness of a member value
Truthy(v) == v \notin {"undefined", "", "0"}

Remove(seq, i) == SubSeq(seq, 1, i - 1) \o SubSeq(seq, i + 1, Len(seq))

\* updateHuntStatus that writes the status and leaves the error out
HuntAfterStatus_DropsError(h, status, updates) ==
    [h EXCEPT
       !.status = status,
       !.progress = IF "progress" \in DOMAIN updates THEN updates["progress"] ELSE @,
       !.currentPhase = IF "currentPhase" \in DOMAIN updates /\ updates["currentPhase"] # ""
                        THEN updates["currentPhase"] ELSE @,
       !.processId = IF "processId" \in DOMAIN updates /\ updates["processId"] # ""
                     THEN updates["processId"] ELSE @]

\* the row prisma.hunt.update writes for updateHuntStatus(huntId, status, updates)
HuntAfterStatus(h, status, updates) ==
    [h EXCEPT
       !.status = status,
       !.progress = IF "progress" \in DOMAIN updates THEN updates["progress"] ELSE @,
       !.currentPhase = IF "currentPhase" \in DOMAIN updates /\ updates["currentPhase"] # ""
                        THEN updates["currentPhase"] ELSE @,
       !.error = IF "error" \in DOMAIN updates /\ updates["error"] # ""
                 THEN updates["error"] ELSE @,
       !.processId = IF "processId" \in DOMAIN updates /\ updates["processId"] # ""
                     THEN updates["processId"] ELSE @]

\* the row prisma.hunt.update writes in addVulnerability: the counters are
\* computed from the row read before (snap), the other fields are kept
HuntAfterVulnerability(h, snap, severity) ==
    LET total == [h EXCEPT !.vulnerabilityCount = snap.vulnerabilityCount + 1]
    IN  IF severity \in DOMAIN SeverityField
        THEN [total EXCEPT ![SeverityField[severity]] = snap[SeverityField[severity]] + 1]
        ELSE total

\* messages handed to the WebSocketManager
StatusMsg(h) == [ch |-> "hunt:status", status |-> h.status, progress |-> h.progress,
                 error |-> h.error]
EventMsg(e)  == [ch |-> "hunt:event", type |-> e.type]
VulnMsg(sev) == [ch |-> "hunt:vulnerability", severity |-> sev]
AgentMsg(id, st) == [ch |-> "hunt:agent", id |-> id, status |-> st]
LogMsg       == [ch |-> "hunt:log"]

\* handleAgentEvent: the status an agent event stands for
AgentStatusOf(type) ==
    CASE type = "agent_created"   -> "pending"
      [] type = "agent_started"   -> "running"
      [] type = "agent_completed" -> "completed"
      [] OTHER                    -> "failed"

AgentTypes == {"agent_created", "agent_started", "agent_completed", "agent_failed"}

\* handleProgressEvent / handlePhaseEvent: the updates passed to
\* updateHuntStatus(huntId, 'running', ...), or none when the guard fails
\* a guard that takes any number
ProgressValid_AnyNumber(e) == IsNumber(Field(e.data, "progress"))

ProgressValid(e) ==
    /\ IsNumber(Field(e.data, "progress"))
    /\ NumberValue[Field(e.data, "progress")] >= 0
    /\ NumberValue[Field(e.data, "progress")] <= 100
PhaseValid(e) == Truthy(Field(e.data, "phase"))

EventUpdates(e) ==
    IF e.type = "progress_update"
    THEN [progress |-> NumberValue[Field(e.data, "progress")]]
    ELSE [currentPhase |-> Field(e.data, "phase")]

\* handleParsedEvent: the first awaited call of the switch for an event,
\* "none" when the switch awaits no controller call
SwitchCall(e) ==
    CASE e.type = "vulnerability_found" -> "vulnCreate"
      [] e.type \in AgentTypes -> "agentUpsert"
      [] e.type = "progress_update" /\ ProgressValid(e) -> "statusUpdate"
      [] e.type = "phase_changed" /\ PhaseValid(e) -> "statusUpdate"
      [] OTHER -> "none"

\* stdout listener, after the loop: job.updateProgress is awaited when the
\* first progress_update event of the chunk carries a truthy progress
JobProgressOf(evs) ==
    LET idx == {k \in 1..Len(evs) : evs[k].type = "progress_update"}
    IN  IF idx = {} THEN "undefined" ELSE Field(evs[Min(idx)].data, "progress")

\* messages of handleParsedEvent sent without a further await
SyncBroadcasts(e) ==
    <<EventMsg(e)>> \o (IF e.type = "log" THEN <<LogMsg>> ELSE <<>>)

ExitErrorText(code) ==
    CASE code = "1"   -> "Process exited with code 1"
      [] code = "137" -> "Process exited with code 137"
      [] OTHER        -> "Process exited with code"

SpawnErrorText == "spawn python ENOENT"

\* a listener invocation in flight: the events still to handle (the head is
\* the current one), all events of its chunk, the call it awaits, the
\* sequence number taken for the current event, the Hunt row read last
NewHandler(kind, evs, seq) ==
    [kind |-> kind, evs |-> evs, all |-> evs, pc |-> "record", seq |-> seq,
     snap |-> InitialHunt]

ErrorHandler == [kind |-> "error", evs |-> <<>>, all |-> <<>>, pc |-> "failFind",
                 seq |-> 0, snap |-> InitialHunt]

\* outputs of the supervised process: the chunks it writes to stdout
Scripts ==
    { <<>>,
      << <<"#","V","{","h","}",NL,"#","P","{","g","}",NL>>, <<"#","V","{","l","}",NL>> >>,
      << <<"#","V","{","h","}",NL>>, <<"x">> >>,
      << <<"#","a","{","i","}",NL,"#","H","{","p","}",NL>> >> }

(***************************************************************************)
(* The hunt queue: jobs by id, for several hunts                           *)
(***************************************************************************)
QueueHunts == {"h1", "h2"}

WorkerConcurrency == 3    \* WORKER_CONCURRENCY || '3'

NoJobs == [id \in {} |-> id]

QueueIdle ==
    /\ qJobs = NoJobs
    /\ qAdds = [h \in QueueHunts |-> 0]

(***************************************************************************)
(* The socket.io server, the retried job and the clock at rest             *)
(***************************************************************************)
Sockets == {"s1", "s2"}
SocketHunts == {"h1", "h2"}
\* the event names of broadcastHuntEvent, broadcastHuntStatus,
\* broadcastVulnerability, broadcastAgentUpdate and broadcastLog
EmitNames == {"hunt:event", "hunt:status", "hunt:vulnerability", "hunt:agent", "hunt:log"}

SocketIdle ==
    /\ connections = {}
    /\ sockets = {}
    /\ rooms = [h \in SocketHunts |-> {}]
    /\ published = <<>>
    /\ received = [s \in Sockets |-> <<>>]
    /\ lastEmit = [name |-> "", hunt |-> ""]

JobAttempts == 3          \* defaultJobOptions.attempts
NoProcs == [a \in {} |-> a]

RetryIdle ==
    /\ storeUp = TRUE
    /\ attemptsMade = 0
    /\ retryJob = "waiting"
    /\ retryPc = "idle"
    /\ procs = NoProcs
    /\ tracked = 0

NoTime == -1              \* a timestamp column that is null
NoData == [startedAt |-> NoTime, completedAt |-> NoTime, duration |-> NoTime]
NewRow == [status |-> "pending", startedAt |-> NoTime, completedAt |-> NoTime,
           duration |-> NoTime]

ClockIdle ==
    /\ now = 0
    /\ stamps = NewRow
    /\ statusPc = "idle"
    /\ statusData = NoData

\* the processes of a deployment: the web server, which runs initializeServer
\* (and a Worker inside it), and a Worker run as a separate process
Processes == {"web", "worker"}

DeployIdle ==
    /\ wsManagerInstance = [p \in Processes |-> FALSE]
    /\ statusCalls = <<>>
    /\ statusEmits = <<>>

SeqIdle ==
    /\ attemptSequence = 0
    /\ persisted = <<>>

NoRows == [a \in {} |-> a]

AgentIdle ==
    /\ agentRows = NoRows
    /\ lastUpsert = [hunt |-> "", id |-> ""]

ExtraIdle == DeployIdle /\ SeqIdle /\ AgentIdle

MiscIdle ==
    /\ unhandledRejections = 0
    /\ ExtraIdle

SideIdle ==
    /\ SocketIdle
    /\ RetryIdle
    /\ ClockIdle
    /\ MiscIdle

\* ids the queue gives jobs added without a jobId, by hunt and call number
GeneratedIds ==
    [h1 |-> <<"1", "3", "5", "7", "9">>, h2 |-> <<"2", "4", "6", "8", "10">>]

\* enqueueHunt leaving the id of the job to the queue
JobIdOf_Generated(huntId, call) == GeneratedIds[huntId][call]

\* enqueueHunt: jobId: data.huntId
JobIdOf(huntId, call) == huntId

\* huntQueue.add: a job is stored as waiting unless the queue holds a job
\* with its id
QueueAdd(jobs, id, huntId) ==
    IF id \in DOMAIN jobs
    THEN jobs
    ELSE [j \in DOMAIN jobs \cup {id} |->
            IF j = id THEN [huntId |-> huntId, state |-> "waiting"] ELSE jobs[j]]

ActiveJobs == {j \in DOMAIN qJobs : qJobs[j].state = "active"}

(***************************************************************************)
(* WorkerSpec: the worker runs the job of one hunt while the process       *)
(* writes its output and exits, and a stopHunt request may arrive          *)
(***************************************************************************)
\* variables no action of the worker changes
fixedVars == <<input, pos, events, pstate, midCut, script, ctlVars, queueVars, sideVars>>

ParserIdle ==
    /\ input = <<>> /\ pos = 0 /\ events = <<>> /\ pstate = "feeding" /\ midCut = FALSE

WorkerIdle ==
    /\ hunt = InitialHunt
    /\ vulnRows = <<>>
    /\ huntEvents = <<>>
    /\ agents = <<>>
    /\ broadcasts = <<>>
    /\ jobState = "waiting"
    /\ jobProgress = "0"
    /\ activeProcesses = {}
    /\ eventSequence = 0
    /\ wVulnCount = 0
    /\ output = <<>>
    /\ mainPc = "idle"
    /\ mainErr = ""
    /\ handlers = <<>>
    /\ stopPc = "idle"
    /\ script = <<>>
    /\ stopHeld = FALSE
    /\ stopJobState = ""
    /\ huntExists = TRUE
    /\ startPc = "done"
    /\ startErr = ""
    /\ QueueIdle

WorkerInit ==
    /\ hunt = InitialHunt
    /\ vulnRows = <<>>
    /\ huntEvents = <<>>
    /\ agents = <<>>
    /\ broadcasts = <<>>
    /\ jobState = "waiting"
    /\ jobProgress = "0"
    /\ activeProcesses = {}
    /\ eventSequence = 0
    /\ wVulnCount = 0
    /\ SideIdle
    /\ script \in Scripts
    /\ output = script
    /\ mainPc = "idle"
    /\ mainErr = ""
    /\ handlers = <<>>
    /\ stopPc = "idle"
    /\ stopHeld = FALSE
    /\ stopJobState = ""
    /\ huntExists = TRUE
    /\ startPc = "done"
    /\ startErr = ""
    /\ QueueIdle
    /\ buffer = <<>>
    /\ ParserIdle
    /\ PMIdle
    /\ pmLog = <<>>

\* the queue hands the job to the worker: processHuntJob runs up to its
\* first await, updateHuntStatus(huntId, 'running', ...)
Dequeue ==
    /\ jobState = "waiting"
    /\ mainPc = "idle"
    /\ jobState' = "active"
    /\ mainPc' = "setRunning"
    /\ UNCHANGED <<hunt, vulnRows, huntEvents, agents, broadcasts, jobProgress,
                   activeProcesses, eventSequence, wVulnCount, output, mainErr,
                   handlers, stopPc, stopHeld, stopJobState, buffer, fixedVars, pmVars, pmLog>>

\* the first status update is written; the ProcessManager is created,
\* tracked, given its listeners and started; getPid() is defined when the
\* spawn succeeded
MainSetRunning ==
    /\ mainPc = "setRunning"
    /\ hunt' = HuntAfterStatus(hunt, "running",
                               [progress |-> 0, currentPhase |-> "initializing"])
    /\ broadcasts' = Append(broadcasts, StatusMsg(hunt'))
    /\ activeProcesses' = activeProcesses \cup {HuntId}
    /\ \E outcome \in {"alive", "spawnFailed"} :
          /\ PMStart(outcome)
          /\ mainPc' = IF outcome = "alive" THEN "setPid" ELSE "wait"
    /\ UNCHANGED <<vulnRows, huntEvents, agents, jobState, jobProgress, eventSequence,
                   wVulnCount, output, mainErr, handlers, stopPc, stopHeld, stopJobState, buffer,
                   fixedVars, pmLog>>

\* the update carrying the process id is written; the completion promise
\* registers its 'exit' and 'error' listeners
MainSetPid ==
    /\ mainPc = "setPid"
    /\ hunt' = HuntAfterStatus(hunt, "running", [processId |-> "pid"])
    /\ broadcasts' = Append(broadcasts, StatusMsg(hunt'))
    /\ mainPc' = "wait"
    /\ UNCHANGED <<vulnRows, huntEvents, agents, jobState, jobProgress, activeProcesses,
                   eventSequence, wVulnCount, output, mainErr, handlers, stopPc, stopHeld, stopJobState, buffer,
                   fixedVars, pmVars, pmLog>>

\* a chunk of stdout arrives: the 'stdout' listener parses it and starts
\* handling its first event (a stream may deliver data after 'exit')
DeliverStdout ==
    /\ childState \in {"alive", "exited"}
    /\ output # <<>>
    /\ LET r == parse(buffer, Head(output))
       IN  /\ buffer' = r.buffer
           /\ IF r.events # <<>>
              THEN /\ handlers' = Append(handlers, NewHandler("stdout", r.events, eventSequence))
                   /\ eventSequence' = eventSequence + 1
              ELSE UNCHANGED <<handlers, eventSequence>>
    /\ output' = Tail(output)
    /\ UNCHANGED <<hunt, vulnRows, huntEvents, agents, broadcasts, jobState, jobProgress,
                   activeProcesses, wVulnCount, mainPc, mainErr, stopPc, stopHeld, stopJobState,
                   fixedVars, pmVars, pmLog>>

\* the process exits: the 'exit' listener of line 93 flushes the parser and
\* starts handling the flushed event (or forgets the process at once), then
\* the listener of the completion promise, if registered, settles it
ProcessExit ==
    /\ \E code \in ExitCodes :
          /\ PMOnExit(code)
          /\ IF mainPc = "wait"
             THEN IF code = "0" \/ code = "null"
                  THEN mainPc' = "completedFind" /\ UNCHANGED mainErr
                  ELSE mainPc' = "failedFind" /\ mainErr' = ExitErrorText(code)
             ELSE UNCHANGED <<mainPc, mainErr>>
    /\ LET f == flush(buffer)
       IN  /\ buffer' = f.buffer
           /\ IF f.events # <<>>
              THEN /\ handlers' = Append(handlers, NewHandler("exit", f.events, eventSequence))
                   /\ eventSequence' = eventSequence + 1
                   /\ UNCHANGED activeProcesses
              ELSE /\ activeProcesses' = activeProcesses \ {HuntId}
                   /\ UNCHANGED <<handlers, eventSequence>>
    /\ UNCHANGED <<hunt, vulnRows, huntEvents, agents, broadcasts, jobState, jobProgress,
                   wVulnCount, output, stopPc, stopHeld, stopJobState, fixedVars, pmLog>>

\* the spawn failure is reported: the 'error' listener of line 106 calls
\* updateHuntStatus(huntId, 'failed', ...), the completion promise rejects
ProcessError ==
    /\ PMOnError
    /\ handlers' = Append(handlers, ErrorHandler)
    /\ IF mainPc = "wait"
       THEN mainPc' = "failedFind" /\ mainErr' = SpawnErrorText
       ELSE UNCHANGED <<mainPc, mainErr>>
    /\ UNCHANGED <<hunt, vulnRows, huntEvents, agents, broadcasts, jobState, jobProgress,
                   activeProcesses, eventSequence, wVulnCount, output, stopPc, stopHeld, stopJobState, buffer,
                   fixedVars, pmLog>>

\* updateHuntStatus(huntId, 'completed', ...): findUnique, then update
MainCompletedFind ==
    /\ mainPc = "completedFind"
    /\ mainPc' = "completedUpdate"
    /\ UNCHANGED <<hunt, vulnRows, huntEvents, agents, broadcasts, jobState, jobProgress,
                   activeProcesses, eventSequence, wVulnCount, output, mainErr,
                   handlers, stopPc, stopHeld, stopJobState, buffer, fixedVars, pmVars, pmLog>>

MainCompletedUpdate ==
    /\ mainPc = "completedUpdate"
    /\ hunt' = HuntAfterStatus(hunt, "completed", [progress |-> 100])
    /\ broadcasts' = Append(broadcasts, StatusMsg(hunt'))
    /\ jobState' = IF jobState = "active" THEN "completed" ELSE jobState
    /\ mainPc' = "done"
    /\ UNCHANGED <<vulnRows, huntEvents, agents, jobProgress, activeProcesses,
                   eventSequence, wVulnCount, output, mainErr, handlers, stopPc, stopHeld, stopJobState, buffer,
                   fixedVars, pmVars, pmLog>>

\* catch block: updateHuntStatus(huntId, 'failed', ...): findUnique, update
MainFailedFind ==
    /\ mainPc = "failedFind"
    /\ mainPc' = "failedUpdate"
    /\ UNCHANGED <<hunt, vulnRows, huntEvents, agents, broadcasts, jobState, jobProgress,
                   activeProcesses, eventSequence, wVulnCount, output, mainErr,
                   handlers, stopPc, stopHeld, stopJobState, buffer, fixedVars, pmVars, pmLog>>

\* ... then the process still tracked is stopped and forgotten, and the
\* function returns its result (it does not rethrow)
MainFailedUpdate ==
    /\ mainPc = "failedUpdate"
    /\ hunt' = HuntAfterStatus(hunt, "failed", [error |-> mainErr])
    /\ broadcasts' = Append(broadcasts, StatusMsg(hunt'))
    /\ IF HuntId \in activeProcesses
       THEN PMStop /\ activeProcesses' = activeProcesses \ {HuntId}
       ELSE UNCHANGED <<pmVars, activeProcesses>>
    /\ jobState' = IF jobState = "active" THEN "completed" ELSE jobState
    /\ mainPc' = "done"
    /\ UNCHANGED <<vulnRows, huntEvents, agents, jobProgress, eventSequence, wVulnCount,
                   output, mainErr, handlers, stopPc, stopHeld, stopJobState, buffer, fixedVars, pmLog>>

\* --- listener invocations ---

\* the current event of handler i is done: the loop takes the next event
\* and its sequence number, or the listener finishes
AfterEvent(i) ==
    LET h == handlers[i]
        rest == Tail(h.evs)
    IN  /\ wVulnCount' = IF h.kind = "stdout" /\ Head(h.evs).type = "vulnerability_found"
                         THEN wVulnCount + 1 ELSE wVulnCount
        /\ IF rest # <<>>
           THEN /\ handlers' = [handlers EXCEPT ![i] =
                                   [h EXCEPT !.evs = rest, !.pc = "record", !.seq = eventSequence,
                                             !.snap = InitialHunt]]
                /\ eventSequence' = eventSequence + 1
                /\ UNCHANGED activeProcesses
           ELSE /\ UNCHANGED eventSequence
                /\ IF h.kind = "stdout"
                   THEN /\ IF Truthy(JobProgressOf(h.all))
                           THEN handlers' = [handlers EXCEPT ![i] =
                                     [h EXCEPT !.evs = <<>>, !.pc = "jobProgress",
                                               !.snap = InitialHunt]]
                           ELSE handlers' = Remove(handlers, i)
                        /\ UNCHANGED activeProcesses
                   ELSE /\ handlers' = Remove(handlers, i)
                        /\ activeProcesses' = activeProcesses \ {HuntId}

\* handleParsedEvent: recordEvent is written, the event is broadcast and
\* the switch makes its first call
HandlerRecord(i) ==
    /\ handlers[i].pc = "record"
    /\ LET h == handlers[i]
           e == Head(h.evs)
       IN  /\ huntEvents' = Append(huntEvents, [type |-> e.type, sequenceNumber |-> h.seq,
                                                raw |-> e.raw])
           /\ broadcasts' = broadcasts \o SyncBroadcasts(e)
           /\ IF SwitchCall(e) # "none"
              THEN /\ handlers' = [handlers EXCEPT ![i].pc = SwitchCall(e)]
                   /\ UNCHANGED <<eventSequence, wVulnCount, activeProcesses>>
              ELSE AfterEvent(i)
    /\ UNCHANGED <<hunt, vulnRows, agents, jobState, jobProgress, output, mainPc, mainErr,
                   stopPc, stopHeld, stopJobState, buffer, fixedVars, pmVars, pmLog>>

\* addVulnerability: prisma.vulnerability.create
HandlerVulnCreate(i) ==
    /\ handlers[i].pc = "vulnCreate"
    /\ vulnRows' = Append(vulnRows, Field(Head(handlers[i].evs).data, "severity"))
    /\ handlers' = [handlers EXCEPT ![i].pc = "vulnFind"]
    /\ UNCHANGED <<hunt, huntEvents, agents, broadcasts, jobState, jobProgress,
                   activeProcesses, eventSequence, wVulnCount, output, mainPc, mainErr,
                   stopPc, stopHeld, stopJobState, buffer, fixedVars, pmVars, pmLog>>

\* addVulnerability: prisma.hunt.findUnique
HandlerVulnFind(i) ==
    /\ handlers[i].pc = "vulnFind"
    /\ handlers' = [handlers EXCEPT ![i].pc = "vulnUpdate", ![i].snap = hunt]
    /\ UNCHANGED <<hunt, vulnRows, huntEvents, agents, broadcasts, jobState, jobProgress,
                   activeProcesses, eventSequence, wVulnCount, output, mainPc, mainErr,
                   stopPc, stopHeld, stopJobState, buffer, fixedVars, pmVars, pmLog>>

\* addVulnerability: prisma.hunt.update with the counters computed from the
\* row read, then the broadcast
HandlerVulnUpdate(i) ==
    /\ handlers[i].pc = "vulnUpdate"
    /\ LET sev == Field(Head(handlers[i].evs).data, "severity")
       IN  /\ hunt' = HuntAfterVulnerability(hunt, handlers[i].snap, sev)
           /\ broadcasts' = Append(broadcasts, VulnMsg(sev))
    /\ AfterEvent(i)
    /\ UNCHANGED <<vulnRows, huntEvents, agents, jobState, jobProgress, output, mainPc,
                   mainErr, stopPc, stopHeld, stopJobState, buffer, fixedVars, pmVars, pmLog>>

\* upsertAgent: prisma.agent.upsert by the reported id, then the broadcast
HandlerAgentUpsert(i) ==
    /\ handlers[i].pc = "agentUpsert"
    /\ LET e == Head(handlers[i].evs)
           id == Field(e.data, "agentId")
           st == AgentStatusOf(e.type)
       IN  /\ agents' = [a \in DOMAIN agents \cup {id} |-> IF a = id THEN st ELSE agents[a]]
           /\ broadcasts' = Append(broadcasts, AgentMsg(id, st))
    /\ AfterEvent(i)
    /\ UNCHANGED <<hunt, vulnRows, huntEvents, jobState, jobProgress, output, mainPc,
                   mainErr, stopPc, stopHeld, stopJobState, buffer, fixedVars, pmVars, pmLog>>

\* handleProgressEvent / handlePhaseEvent: updateHuntStatus(huntId, 'running', ...)
HandlerStatusUpdate(i) ==
    /\ handlers[i].pc = "statusUpdate"
    /\ hunt' = HuntAfterStatus(hunt, "running", EventUpdates(Head(handlers[i].evs)))
    /\ broadcasts' = Append(broadcasts, StatusMsg(hunt'))
    /\ AfterEvent(i)
    /\ UNCHANGED <<vulnRows, huntEvents, agents, jobState, jobProgress, output, mainPc,
                   mainErr, stopPc, stopHeld, stopJobState, buffer, fixedVars, pmVars, pmLog>>

\* stdout listener: job.updateProgress
HandlerJobProgress(i) ==
    /\ handlers[i].pc = "jobProgress"
    /\ jobProgress' = IF jobState \notin {"none", "removed"} THEN JobProgressOf(handlers[i].all)
                      ELSE jobProgress
    /\ handlers' = Remove(handlers, i)
    /\ UNCHANGED <<hunt, vulnRows, huntEvents, agents, broadcasts, jobState,
                   activeProcesses, eventSequence, wVulnCount, output, mainPc, mainErr,
                   stopPc, stopHeld, stopJobState, buffer, fixedVars, pmVars, pmLog>>

\* 'error' listener: updateHuntStatus(huntId, 'failed', ...): findUnique, update
HandlerFailFind(i) ==
    /\ handlers[i].pc = "failFind"
    /\ handlers' = [handlers EXCEPT ![i].pc = "failUpdate"]
    /\ UNCHANGED <<hunt, vulnRows, huntEvents, agents, broadcasts, jobState, jobProgress,
                   activeProcesses, eventSequence, wVulnCount, output, mainPc, mainErr,
                   stopPc, stopHeld, stopJobState, buffer, fixedVars, pmVars, pmLog>>

HandlerFailUpdate(i) ==
    /\ handlers[i].pc = "failUpdate"
    /\ hunt' = HuntAfterStatus(hunt, "failed", [error |-> SpawnErrorText])
    /\ broadcasts' = Append(broadcasts, StatusMsg(hunt'))
    /\ handlers' = Remove(handlers, i)
    /\ UNCHANGED <<vulnRows, huntEvents, agents, jobState, jobProgress, activeProcesses,
                   eventSequence, wVulnCount, output, mainPc, mainErr, stopPc, stopHeld, stopJobState, buffer,
                   fixedVars, pmVars, pmLog>>

\* --- stopHunt(huntId), called by POST /api/hunts/[id]/stop ---

StopHuntCall ==
    /\ stopPc = "idle"
    /\ stopPc' = "find"
    /\ stopJobState' = jobState
    /\ UNCHANGED <<hunt, vulnRows, huntEvents, agents, broadcasts, jobState, jobProgress,
                   activeProcesses, eventSequence, wVulnCount, output, mainPc, mainErr,
                   handlers, stopHeld, buffer, fixedVars, pmVars, pmLog>>

\* stopHunt without the test of the status read
StopFind_Unchecked ==
    /\ stopPc = "find"
    /\ stopPc' = IF ~huntExists THEN "rejected" ELSE "getJob"
    /\ UNCHANGED <<hunt, vulnRows, huntEvents, agents, broadcasts, jobState, jobProgress,
                   activeProcesses, eventSequence, wVulnCount, output, mainPc, mainErr,
                   handlers, stopHeld, stopJobState, buffer, fixedVars, pmVars, pmLog>>

\* findUnique; an unknown hunt, or one that is neither running nor pending,
\* is rejected
StopFind ==
    /\ stopPc = "find"
    /\ stopPc' = IF ~huntExists \/ (hunt.status # "running" /\ hunt.status # "pending")
                 THEN "rejected" ELSE "getJob"
    /\ UNCHANGED <<hunt, vulnRows, huntEvents, agents, broadcasts, jobState, jobProgress,
                   activeProcesses, eventSequence, wVulnCount, output, mainPc, mainErr,
                   handlers, stopHeld, stopJobState, buffer, fixedVars, pmVars, pmLog>>

\* stopHuntJob: huntQueue.getJob
StopGetJob ==
    /\ stopPc = "getJob"
    /\ stopPc' = IF jobState \in {"none", "removed"} THEN "update" ELSE "remove"
    /\ UNCHANGED <<hunt, vulnRows, huntEvents, agents, broadcasts, jobState, jobProgress,
                   activeProcesses, eventSequence, wVulnCount, output, mainPc, mainErr,
                   handlers, stopHeld, stopJobState, buffer, fixedVars, pmVars, pmLog>>

\* stopHuntJob: job.remove(); the queue refuses to remove a job a worker
\* holds, and the error is caught
StopRemove ==
    /\ stopPc = "remove"
    /\ jobState' = IF jobState = "active" THEN jobState ELSE "removed"
    /\ stopPc' = "update"
    /\ UNCHANGED <<hunt, vulnRows, huntEvents, agents, broadcasts, jobProgress,
                   activeProcesses, eventSequence, wVulnCount, output, mainPc, mainErr,
                   handlers, stopHeld, stopJobState, buffer, fixedVars, pmVars, pmLog>>

\* prisma.hunt.update to 'stopped', then the broadcast
StopUpdate ==
    /\ stopPc = "update"
    /\ hunt' = [hunt EXCEPT !.status = "stopped"]
    /\ broadcasts' = Append(broadcasts, [ch |-> "hunt:status", status |-> "stopped",
                                         progress |-> hunt.progress, error |-> ""])
    /\ stopPc' = "done"
    /\ stopHeld' = (HuntId \in activeProcesses /\ childState = "alive")
    /\ UNCHANGED <<vulnRows, huntEvents, agents, jobState, jobProgress, activeProcesses,
                   eventSequence, wVulnCount, output, mainPc, mainErr, handlers, stopJobState, buffer,
                   fixedVars, pmVars, pmLog>>

\* --- the timer of ProcessManager.stop() ---
workerOnly == <<hunt, vulnRows, huntEvents, agents, broadcasts, jobState, jobProgress,
                activeProcesses, eventSequence, wVulnCount, output, mainPc, mainErr,
                handlers, stopPc, stopHeld, stopJobState, buffer, fixedVars, pmLog>>

KillTimerTick == PMTick /\ UNCHANGED workerOnly

KillTimerCallback == PMTimerCallback /\ UNCHANGED workerOnly

RecordEvent     == \E i \in 1..Len(handlers) : HandlerRecord(i)
VulnCreate      == \E i \in 1..Len(handlers) : HandlerVulnCreate(i)
VulnFind        == \E i \in 1..Len(handlers) : HandlerVulnFind(i)
VulnUpdate      == \E i \in 1..Len(handlers) : HandlerVulnUpdate(i)
AgentUpsert     == \E i \in 1..Len(handlers) : HandlerAgentUpsert(i)
StatusUpdate    == \E i \in 1..Len(handlers) : HandlerStatusUpdate(i)
JobProgress     == \E i \in 1..Len(handlers) : HandlerJobProgress(i)
ErrorFailFind   == \E i \in 1..Len(handlers) : HandlerFailFind(i)
ErrorFailUpdate == \E i \in 1..Len(handlers) : HandlerFailUpdate(i)

WorkerNext ==
    \/ Dequeue
    \/ MainSetRunning
    \/ MainSetPid
    \/ DeliverStdout
    \/ ProcessExit
    \/ ProcessError
    \/ MainCompletedFind
    \/ MainCompletedUpdate
    \/ MainFailedFind
    \/ MainFailedUpdate
    \/ RecordEvent
    \/ VulnCreate
    \/ VulnFind
    \/ VulnUpdate
    \/ AgentUpsert
    \/ StatusUpdate
    \/ JobProgress
    \/ ErrorFailFind
    \/ ErrorFailUpdate
    \/ StopHuntCall
    \/ StopFind
    \/ StopGetJob
    \/ StopRemove
    \/ StopUpdate
    \/ KillTimerTick
    \/ KillTimerCallback

(***************************************************************************)
(* ControllerSpec: startHunt creates the hunt and enqueues its job, the    *)
(* worker runs the job of a process that writes nothing, and stopHunt      *)
(* requests arrive at any time                                             *)
(***************************************************************************)
\* variables no step of startHunt changes
startFixed == <<vulnRows, huntEvents, agents, jobProgress, activeProcesses, eventSequence,
                wVulnCount, output, mainPc, mainErr, handlers, stopPc, stopHeld,
                stopJobState, buffer, input, pos, events, pstate, midCut, script,
                pmVars, pmLog, queueVars, sideVars>>

ControllerInit ==
    /\ SideIdle
    /\ hunt = InitialHunt
    /\ huntExists = FALSE
    /\ startPc = "idle"
    /\ startErr = ""
    /\ QueueIdle
    /\ vulnRows = <<>>
    /\ huntEvents = <<>>
    /\ agents = <<>>
    /\ broadcasts = <<>>
    /\ jobState = "none"
    /\ jobProgress = "0"
    /\ activeProcesses = {}
    /\ eventSequence = 0
    /\ wVulnCount = 0
    /\ script = <<>>
    /\ output = <<>>
    /\ mainPc = "idle"
    /\ mainErr = ""
    /\ handlers = <<>>
    /\ stopPc = "idle"
    /\ stopHeld = FALSE
    /\ stopJobState = ""
    /\ buffer = <<>>
    /\ ParserIdle
    /\ PMIdle
    /\ pmLog = <<>>

\* startHunt(config) is called and runs up to prisma.hunt.create
StartHuntCall ==
    /\ startPc = "idle"
    /\ startPc' = "create"
    /\ UNCHANGED <<hunt, huntExists, startErr, broadcasts, jobState, startFixed>>

\* the row is created with status 'pending'; enqueueHunt is called
StartCreate ==
    /\ startPc = "create"
    /\ huntExists' = TRUE
    /\ hunt' = InitialHunt
    /\ startPc' = "enqueue"
    /\ UNCHANGED <<startErr, broadcasts, jobState, startFixed>>

\* huntQueue.add with jobId = huntId: the job is stored in the queue (an
\* add for an id the queue holds is ignored), or the add fails and the
\* catch block calls prisma.hunt.update
StartEnqueue ==
    /\ startPc = "enqueue"
    /\ \/ /\ jobState' = IF jobState \in {"none", "removed"} THEN "waiting" ELSE jobState
          /\ startPc' = "enqueued"
          /\ UNCHANGED startErr
       \/ /\ startPc' = "failUpdate"
          /\ startErr' = EnqueueErrorText
          /\ UNCHANGED jobState
    /\ UNCHANGED <<hunt, huntExists, broadcasts, startFixed>>

\* the reply of the queue reaches startHunt: it broadcasts the initial
\* status and returns the hunt
StartEnqueued ==
    /\ startPc = "enqueued"
    /\ broadcasts' = Append(broadcasts, [ch |-> "hunt:status", status |-> "pending",
                                         progress |-> 0, error |-> ""])
    /\ startPc' = "done"
    /\ UNCHANGED <<hunt, huntExists, startErr, jobState, startFixed>>

\* catch block: the hunt is updated to 'failed' with the message of the
\* error, which is thrown to the caller
StartFailUpdate ==
    /\ startPc = "failUpdate"
    /\ hunt' = HuntAfterEnqueueFailure(hunt, startErr)
    /\ startPc' = "threw"
    /\ UNCHANGED <<huntExists, startErr, broadcasts, jobState, startFixed>>

\* the stop route has answered; another request may come
StopReturn ==
    /\ stopPc \in {"done", "rejected"}
    /\ stopPc' = "idle"
    /\ UNCHANGED <<hunt, vulnRows, huntEvents, agents, broadcasts, jobState, jobProgress,
                   activeProcesses, eventSequence, wVulnCount, output, mainPc, mainErr,
                   handlers, stopHeld, stopJobState, buffer, fixedVars, pmVars, pmLog>>

ControllerNext ==
    \/ StartHuntCall
    \/ StartCreate
    \/ StartEnqueue
    \/ StartEnqueued
    \/ StartFailUpdate
    \/ Dequeue
    \/ MainSetRunning
    \/ MainSetPid
    \/ ProcessExit
    \/ ProcessError
    \/ MainCompletedFind
    \/ MainCompletedUpdate
    \/ MainFailedFind
    \/ MainFailedUpdate
    \/ ErrorFailFind
    \/ ErrorFailUpdate
    \/ StopHuntCall
    \/ StopFind
    \/ StopGetJob
    \/ StopRemove
    \/ StopUpdate
    \/ StopReturn
    \/ KillTimerTick
    \/ KillTimerCallback

(***************************************************************************)
(* QueueSpec: enqueueHunt and stopHuntJob are called for two hunts, any    *)
(* number of times, while workers take and finish jobs                     *)
(***************************************************************************)
MaxAdds == 3

queueFixed == <<parserVars, pmVars, pmLog, hunt, vulnRows, huntEvents, agents, broadcasts,
                jobState, jobProgress, activeProcesses, eventSequence, wVulnCount, output,
                mainPc, mainErr, handlers, stopPc, script, stopHeld, stopJobState, ctlVars,
                sideVars>>

QueueInit ==
    /\ QueueIdle
    /\ SideIdle
    /\ hunt = InitialHunt
    /\ vulnRows = <<>>
    /\ huntEvents = <<>>
    /\ agents = <<>>
    /\ broadcasts = <<>>
    /\ jobState = "none"
    /\ jobProgress = "0"
    /\ activeProcesses = {}
    /\ eventSequence = 0
    /\ wVulnCount = 0
    /\ script = <<>>
    /\ output = <<>>
    /\ mainPc = "idle"
    /\ mainErr = ""
    /\ handlers = <<>>
    /\ stopPc = "idle"
    /\ stopHeld = FALSE
    /\ stopJobState = ""
    /\ huntExists = TRUE
    /\ startPc = "done"
    /\ startErr = ""
    /\ buffer = <<>>
    /\ ParserIdle
    /\ PMIdle
    /\ pmLog = <<>>

\* enqueueHunt(data)
EnqueueHunt ==
    \E h \in QueueHunts :
        /\ qAdds[h] < MaxAdds
        /\ qAdds' = [qAdds EXCEPT ![h] = @ + 1]
        /\ qJobs' = QueueAdd(qJobs, JobIdOf(h, qAdds[h] + 1), h)
        /\ UNCHANGED queueFixed

\* a worker with a free slot takes a waiting job and calls processHuntJob
WorkerTake ==
    \E j \in DOMAIN qJobs :
        /\ qJobs[j].state = "waiting"
        /\ Cardinality(ActiveJobs) < WorkerConcurrency
        /\ qJobs' = [qJobs EXCEPT ![j].state = "active"]
        /\ UNCHANGED <<qAdds, queueFixed>>

\* processHuntJob returns its result: the job is completed and kept
WorkerFinish ==
    \E j \in ActiveJobs :
        /\ qJobs' = [qJobs EXCEPT ![j].state = "completed"]
        /\ UNCHANGED <<qAdds, queueFixed>>

\* stopHuntJob(huntId): the job with the id of the hunt is removed unless a
\* worker holds it
StopHuntJob ==
    \E h \in QueueHunts :
        /\ h \in DOMAIN qJobs
        /\ qJobs[h].state # "active"
        /\ qJobs' = [j \in DOMAIN qJobs \ {h} |-> qJobs[j]]
        /\ UNCHANGED <<qAdds, queueFixed>>

QueueNext ==
    \/ EnqueueHunt
    \/ WorkerTake
    \/ WorkerFinish
    \/ StopHuntJob

(***************************************************************************)
(* ParserSpec: one parser session fed an input stream cut into chunks      *)
(***************************************************************************)
Alphabet == {NL, SP, "#", "V", "{", "}", "x"}

RECURSIVE StringsUpTo(_)
StringsUpTo(n) ==
    IF n = 0 THEN {<<>>}
    ELSE LET shorter == StringsUpTo(n - 1)
         IN  shorter \cup {Append(s, c) : s \in {t \in shorter : Len(t) = n - 1}, c \in Alphabet}

\* streams of the documented protocol, longer than MaxLen
ScenarioInputs ==
    { <<"#","V","{","h","}",NL,"#","P","{","g","}",NL>>,
      <<"#","P","x",NL,"#","V","{","l","}">>,
      <<"{","T","}",NL,"{","U","}",NL,"{","p","}",NL,"x","#","P",SP,"#","V">>,
      <<"#","V",SP,"0",NL,"{","L","}">>,
      <<"{","E","}",NL,"{","L","}",NL,"#","V","{","l","}">> }

ParserInputs == StringsUpTo(MaxLen) \cup ScenarioInputs

ParserInit ==
    /\ input \in ParserInputs
    /\ pos = 0
    /\ buffer = <<>>
    /\ events = <<>>
    /\ pstate = "feeding"
    /\ midCut = FALSE
    /\ PMIdle
    /\ pmLog = <<>>
    /\ WorkerIdle
    /\ SideIdle

\* the owner passes the next k symbols of the stream to parse()
Feed(k) ==
    /\ pstate = "feeding"
    /\ pos + k <= Len(input)
    /\ LET r == parse(buffer, SubSeq(input, pos + 1, pos + k))
       IN  /\ buffer' = r.buffer
           /\ events' = events \o r.events
           /\ midCut' = (midCut \/ (pos + k < Len(input) /\ r.buffer # <<>>))
    /\ pos' = pos + k
    /\ UNCHANGED <<input, pstate, pmVars, pmLog, workerVars>>

\* at the end of the stream the owner calls flush()
Flush ==
    /\ pstate = "feeding"
    /\ pos = Len(input)
    /\ LET r == flush(buffer)
       IN  /\ buffer' = r.buffer
           /\ events' = events \o r.events
    /\ pstate' = "flushed"
    /\ UNCHANGED <<input, pos, midCut, pmVars, pmLog, workerVars>>

ParserNext ==
    \/ \E k \in 1..(MaxLen + 8) : Feed(k)
    \/ Flush

(***************************************************************************)
(* PMSpec: one ProcessManager driven by an arbitrary owner                 *)
(***************************************************************************)
MaxLog == 3

PMInit ==
    /\ PMIdle
    /\ pmLog = <<>>
    /\ buffer = <<>>
    /\ ParserIdle
    /\ WorkerIdle
    /\ SideIdle

StartCall ==
    /\ \/ /\ \E outcome \in {"alive", "spawnFailed"} : PMStart(outcome)
          /\ UNCHANGED pmLog
       \/ /\ PMStartThrows
          /\ Len(pmLog) < MaxLog
          /\ pmLog' = Append(pmLog, "throw: Process already started")
          /\ UNCHANGED pmVars
    /\ UNCHANGED <<parserVars, workerVars>>

StopCall ==
    /\ PMStop
    /\ pmLog' = IF Len(pmLog) < MaxLog THEN Append(pmLog, "stop") ELSE pmLog
    /\ UNCHANGED <<parserVars, workerVars>>

TimerCallback == PMTimerCallback /\ UNCHANGED <<pmLog, parserVars, workerVars>>

Tick == PMTick /\ UNCHANGED <<pmLog, parserVars, workerVars>>

ChildStdout ==
    /\ childState = "alive"
    /\ Len(pmLog) < MaxLog
    /\ pmLog' = Append(pmLog, "stdout")
    /\ UNCHANGED <<pmVars, parserVars, workerVars>>

ChildExit ==
    /\ \E code \in ExitCodes : PMOnExit(code)
    /\ pmLog' = Append(pmLog, "exit")
    /\ UNCHANGED <<parserVars, workerVars>>

ChildError ==
    /\ PMOnError
    /\ pmLog' = Append(pmLog, "error")
    /\ UNCHANGED <<parserVars, workerVars>>

PMNext ==
    \/ StartCall
    \/ StopCall
    \/ TimerCallback
    \/ Tick
    \/ ChildStdout
    \/ ChildExit
    \/ ChildError

(***************************************************************************)
(* SocketSpec: clients connect to the WebSocketManager, subscribe to and   *)
(* unsubscribe from hunts and disconnect, while hunts broadcast messages   *)
(***************************************************************************)
MaxPublished == 4

coreVars == <<parserVars, pmVars, pmLog, hunt, vulnRows, huntEvents, agents, broadcasts,
              jobState, jobProgress, activeProcesses, eventSequence, wVulnCount, output,
              mainPc, mainErr, handlers, stopPc, script, stopHeld, stopJobState, ctlVars,
              queueVars>>

CoreIdle ==
    /\ PMIdle
    /\ pmLog = <<>>
    /\ buffer = <<>>
    /\ ParserIdle
    /\ WorkerIdle

socketFixed == <<coreVars, retryVars, clockVars, miscVars>>

SocketInit ==
    /\ SocketIdle
    /\ CoreIdle
    /\ RetryIdle
    /\ ClockIdle
    /\ MiscIdle

\* a broadcast that reaches every connected socket
Recipients_Everyone(h) == sockets

\* io.to(`hunt:${huntId}`): the sockets in the room of the hunt
Recipients(h) == rooms[h]

\* a subscribe handler that sends the earlier messages to the socket
BacklogOnJoin_Replay(s, h) == [n \in 1..Len(published) |-> n]

\* what the 'subscribe:hunt' handler sends to the socket: nothing, it only joins
BacklogOnJoin(s, h) == <<>>

\* a 'disconnect' handler that keeps the entry
ConnectionsAfterDisconnect_Kept(s) == connections

\* the 'disconnect' handler: this.connections.delete(clientId)
ConnectionsAfterDisconnect(s) == connections \ {s}

getConnectionCount == Cardinality(connections)

\* 'connection': the socket is entered in the table under its id
Connect ==
    \E s \in Sockets \ sockets :
        /\ sockets' = sockets \cup {s}
        /\ connections' = connections \cup {s}
        /\ UNCHANGED <<rooms, published, received, lastEmit, socketFixed>>

\* 'subscribe:hunt': socket.join
Subscribe ==
    \E s \in sockets, h \in SocketHunts :
        /\ rooms' = [rooms EXCEPT ![h] = @ \cup {s}]
        /\ received' = [received EXCEPT ![s] = @ \o BacklogOnJoin(s, h)]
        /\ UNCHANGED <<connections, sockets, published, lastEmit, socketFixed>>

\* 'unsubscribe:hunt': socket.leave
Unsubscribe ==
    \E s \in sockets, h \in SocketHunts :
        /\ rooms' = [rooms EXCEPT ![h] = @ \ {s}]
        /\ UNCHANGED <<connections, sockets, published, received, lastEmit, socketFixed>>

\* 'disconnect': the server has taken the socket out of its rooms, the
\* handler deletes the table entry
Disconnect ==
    \E s \in sockets :
        /\ sockets' = sockets \ {s}
        /\ rooms' = [h \in SocketHunts |-> rooms[h] \ {s}]
        /\ connections' = ConnectionsAfterDisconnect(s)
        /\ UNCHANGED <<published, received, lastEmit, socketFixed>>

\* broadcastHuntEvent / Status / Vulnerability / AgentUpdate / Log:
\* this.io.to(room).emit(name, payload)
Broadcast ==
    \E name \in EmitNames, h \in SocketHunts :
        /\ Len(published) < MaxPublished
        /\ published' = Append(published, [subscribers |-> rooms[h]])
        /\ received' = [s \in Sockets |->
                          IF s \in Recipients(h)
                          THEN Append(received[s], Len(published) + 1)
                          ELSE received[s]]
        /\ lastEmit' = [name |-> name, hunt |-> h]
        /\ UNCHANGED <<connections, sockets, rooms, socketFixed>>

SocketNext ==
    \/ Connect
    \/ Subscribe
    \/ Unsubscribe
    \/ Disconnect
    \/ Broadcast

(***************************************************************************)
(* ClockSpec: updateHuntStatus is called with any status while time passes *)
(***************************************************************************)
MaxTime == 4

clockFixed == <<coreVars, socketVars, retryVars, miscVars>>

ClockInit ==
    /\ ClockIdle
    /\ CoreIdle
    /\ SocketIdle
    /\ RetryIdle
    /\ MiscIdle

\* calculateDuration: null without a start, else the whole seconds since it
calculateDuration(startedAt, t) == IF startedAt = NoTime THEN NoTime ELSE t - startedAt

ClockTick ==
    /\ now < MaxTime
    /\ now' = now + 1
    /\ UNCHANGED <<stamps, statusPc, statusData, clockFixed>>

\* updateHuntStatus(huntId, 'running', ...): data is built by this call, so
\* !data.startedAt holds and data.startedAt = new Date() is part of the update
UpdateRunning ==
    /\ stamps' = [stamps EXCEPT !.status = "running", !.startedAt = now]
    /\ UNCHANGED <<now, statusPc, statusData, clockFixed>>

\* updateHuntStatus with a terminal status: findUnique returns the row, the
\* call stamps completedAt and computes the duration from the row it read
UpdateTerminalFind ==
    \E status \in TerminalStatuses :
        /\ statusPc = "idle"
        /\ statusPc' = status
        /\ statusData' = [startedAt |-> NoTime, completedAt |-> now,
                          duration |-> calculateDuration(stamps.startedAt, now)]
        /\ UNCHANGED <<now, stamps, clockFixed>>

\* prisma.hunt.update with the data of the terminal status
UpdateTerminalWrite ==
    /\ statusPc # "idle"
    /\ stamps' = [stamps EXCEPT !.status = statusPc,
                                !.completedAt = statusData.completedAt,
                                !.duration = statusData.duration]
    /\ statusPc' = "idle"
    /\ statusData' = NoData
    /\ UNCHANGED <<now, clockFixed>>

ClockNext ==
    \/ ClockTick
    \/ UpdateRunning
    \/ UpdateTerminalFind
    \/ UpdateTerminalWrite

(***************************************************************************)
(* RetrySpec: the attempts of one hunt's job when calls to the store may   *)
(* fail; the process writes nothing, only its lifetime is followed         *)
(***************************************************************************)
MaxEvents == 2

retryFixed == <<coreVars, socketVars, clockVars, unhandledRejections, deployVars, agentVars>>

RetryInit ==
    /\ RetryIdle
    /\ CoreIdle
    /\ SocketIdle
    /\ ClockIdle
    /\ MiscIdle

LiveProcs == {a \in DOMAIN procs : procs[a] = "alive"}

\* the database becomes unreachable, or reachable again
StoreChanges ==
    /\ storeUp' = ~storeUp
    /\ UNCHANGED <<attemptsMade, retryJob, retryPc, procs, tracked, retryFixed, seqVars>>

\* the queue gives the job, new or after its backoff delay, to the worker:
\* processHuntJob runs up to updateHuntStatus(huntId, 'running', ...)
RetryTake ==
    /\ retryJob \in {"waiting", "delayed"}
    /\ retryJob' = "active"
    /\ attemptsMade' = attemptsMade + 1
    /\ retryPc' = "setRunning"
    /\ attemptSequence' = 0
    /\ UNCHANGED <<storeUp, procs, tracked, persisted, retryFixed>>

\* the first update: when it is written the ProcessManager is created,
\* activeProcesses.set(huntId, ...) replaces the entry, the process is
\* spawned; when it rejects the catch block is entered
RetrySetRunning ==
    /\ retryPc = "setRunning"
    /\ IF storeUp
       THEN /\ tracked' = attemptsMade
            /\ procs' = [a \in DOMAIN procs \cup {attemptsMade} |->
                            IF a = attemptsMade THEN "alive" ELSE procs[a]]
            /\ retryPc' = "setPid"
       ELSE /\ retryPc' = "catch"
            /\ UNCHANGED <<procs, tracked>>
    /\ UNCHANGED <<storeUp, attemptsMade, retryJob, retryFixed, seqVars>>

\* the update carrying the process id
RetrySetPid ==
    /\ retryPc = "setPid"
    /\ retryPc' = IF storeUp THEN "wait" ELSE "catch"
    /\ UNCHANGED <<storeUp, attemptsMade, retryJob, procs, tracked, retryFixed, seqVars>>

\* a spawned process exits: the 'exit' listener of its ProcessManager
\* deletes the entry of the hunt, the completion promise of the running
\* attempt settles
RetryProcExit ==
    \E a \in LiveProcs, ok \in BOOLEAN :
        /\ procs' = [procs EXCEPT ![a] = "exited"]
        /\ tracked' = 0
        /\ retryPc' = IF a = attemptsMade /\ retryPc = "wait"
                      THEN (IF ok THEN "completed" ELSE "catch")
                      ELSE retryPc
        /\ UNCHANGED <<storeUp, attemptsMade, retryJob, retryFixed, seqVars>>

\* updateHuntStatus(huntId, 'completed', ...) and the return
RetryCompleted ==
    /\ retryPc = "completed"
    /\ IF storeUp
       THEN retryJob' = "completed" /\ retryPc' = "done"
       ELSE retryPc' = "catch" /\ UNCHANGED retryJob
    /\ UNCHANGED <<storeUp, attemptsMade, procs, tracked, retryFixed, seqVars>>

\* the process of the running attempt writes an event: the listener calls
\* handleParsedEvent with eventSequence++, and recordEvent creates the row
\* (the create rejects while the store is unreachable)
RetryRecordEvent ==
    /\ retryPc \in {"setPid", "wait"}
    /\ attemptsMade \in LiveProcs
    /\ attemptSequence < MaxEvents
    /\ attemptSequence' = attemptSequence + 1
    /\ persisted' = IF storeUp
                    THEN Append(persisted, [attempt |-> attemptsMade,
                                            sequenceNumber |-> attemptSequence])
                    ELSE persisted
    /\ UNCHANGED <<retryVars, retryFixed>>

\* the catch block: when updateHuntStatus(huntId, 'failed', ...) is written
\* the tracked process is sent SIGTERM and forgotten and the processor
\* returns; when it rejects the error leaves processHuntJob, and the queue
\* delays the job for another attempt or fails it after the last one
RetryCatch ==
    /\ retryPc = "catch"
    /\ IF storeUp
       THEN /\ tracked' = 0
            /\ retryJob' = "completed"
            /\ retryPc' = "done"
       ELSE /\ retryJob' = IF attemptsMade < JobAttempts THEN "delayed" ELSE "failed"
            /\ retryPc' = "idle"
            /\ UNCHANGED tracked
    /\ UNCHANGED <<storeUp, attemptsMade, procs, retryFixed, seqVars>>

RetryNext ==
    \/ StoreChanges
    \/ RetryTake
    \/ RetrySetRunning
    \/ RetrySetPid
    \/ RetryProcExit
    \/ RetryRecordEvent
    \/ RetryCompleted
    \/ RetryCatch

(***************************************************************************)
(* EventSpec and FaultSpec: the worker runs the job of a process whose     *)
(* output is a stream of agent and progress events (EventSpec), or of an   *)
(* event per listener while calls to the store may reject (FaultSpec)      *)
(***************************************************************************)
\* the first chunk creates agent a1 and the second starts it; one chunk
\* creates a1 and a2 and starts and completes a1; a progress of 45, then
\* one of 150 and one that is not a number
EventScripts ==
    { << <<"#","a","{","i","}",NL>>, <<"#","b","{","i","}",NL>> >>,
      << <<"#","a","{","i","}",NL,"#","a","{","j","}",NL,"#","b","{","i","}",NL,
           "#","c","{","i","}",NL>> >>,
      << <<"#","P","{","g","}",NL,"#","P","{","o","}",NL,"#","P","{","q","}",NL>> >> }

\* a vulnerability handled by the 'stdout' listener and an unfinished line
\* handled by the 'exit' listener
FaultScripts == { << <<"#","V","{","h","}",NL>>, <<"x">> >> }

\* the job of a process that will write one of the outputs S is waiting
JobStart(S) ==
    /\ hunt = InitialHunt
    /\ vulnRows = <<>>
    /\ huntEvents = <<>>
    /\ agents = <<>>
    /\ broadcasts = <<>>
    /\ jobState = "waiting"
    /\ jobProgress = "0"
    /\ activeProcesses = {}
    /\ eventSequence = 0
    /\ wVulnCount = 0
    /\ script \in S
    /\ output = script
    /\ mainPc = "idle"
    /\ mainErr = ""
    /\ handlers = <<>>
    /\ stopPc = "idle"
    /\ stopHeld = FALSE
    /\ stopJobState = ""
    /\ huntExists = TRUE
    /\ startPc = "done"
    /\ startErr = ""
    /\ QueueIdle
    /\ SideIdle
    /\ buffer = <<>>
    /\ ParserIdle
    /\ PMIdle
    /\ pmLog = <<>>

EventInit == JobStart(EventScripts)

EventNext ==
    \/ Dequeue
    \/ MainSetRunning
    \/ MainSetPid
    \/ DeliverStdout
    \/ ProcessExit
    \/ ProcessError
    \/ MainCompletedFind
    \/ MainCompletedUpdate
    \/ MainFailedFind
    \/ MainFailedUpdate
    \/ RecordEvent
    \/ AgentUpsert
    \/ StatusUpdate
    \/ JobProgress
    \/ ErrorFailFind
    \/ ErrorFailUpdate
    \/ KillTimerTick
    \/ KillTimerCallback

FaultInit == JobStart(FaultScripts)

\* the calls to the store a 'stdout' or 'exit' listener awaits
StoreCalls == {"record", "vulnCreate", "vulnFind", "vulnUpdate", "agentUpsert", "statusUpdate"}

\* the call a 'stdout' or 'exit' listener awaits rejects: the listener is an
\* async function without a try block, so its promise rejects; emit() has
\* dropped that promise, nothing handles the rejection, and the rest of the
\* listener (its later events, activeProcesses.delete) does not run
ListenerRejects ==
    \E i \in 1..Len(handlers) :
        /\ handlers[i].kind \in {"stdout", "exit"}
        /\ handlers[i].pc \in StoreCalls
        /\ handlers' = Remove(handlers, i)
        /\ unhandledRejections' = unhandledRejections + 1
        /\ UNCHANGED <<hunt, vulnRows, huntEvents, agents, broadcasts, jobState, jobProgress,
                       activeProcesses, eventSequence, wVulnCount, output, mainPc, mainErr,
                       stopPc, script, stopHeld, stopJobState, ctlVars, queueVars,
                       socketVars, retryVars, clockVars, extraVars, parserVars, pmVars,
                       pmLog>>

FaultNext ==
    \/ Dequeue
    \/ MainSetRunning
    \/ MainSetPid
    \/ DeliverStdout
    \/ ProcessExit
    \/ ProcessError
    \/ MainCompletedFind
    \/ MainCompletedUpdate
    \/ MainFailedFind
    \/ MainFailedUpdate
    \/ RecordEvent
    \/ VulnCreate
    \/ VulnFind
    \/ VulnUpdate
    \/ ErrorFailFind
    \/ ErrorFailUpdate
    \/ KillTimerTick
    \/ KillTimerCallback
    \/ ListenerRejects

(***************************************************************************)
(* Findings of every severity: one listener handles a finding of a         *)
(* severity the switch of addVulnerability names and one it does not       *)
(***************************************************************************)
SeverityScripts ==
    { << <<"#","V","{","h","}",NL,"#","V","{","w","}",NL>> >>,
      << <<"#","V","{","w","}",NL>>, <<"#","V","{","l","}",NL>> >> }

SeverityInit == JobStart(SeverityScripts)

SeverityNext ==
    \/ Dequeue
    \/ MainSetRunning
    \/ MainSetPid
    \/ DeliverStdout
    \/ ProcessExit
    \/ ProcessError
    \/ MainCompletedFind
    \/ MainCompletedUpdate
    \/ MainFailedFind
    \/ MainFailedUpdate
    \/ RecordEvent
    \/ VulnCreate
    \/ VulnFind
    \/ VulnUpdate
    \/ ErrorFailFind
    \/ ErrorFailUpdate
    \/ KillTimerTick
    \/ KillTimerCallback

(***************************************************************************)
(* updateHuntStatus in the processes of a deployment: the web server runs  *)
(* initializeServer, a Worker started as a separate process does not       *)
(***************************************************************************)
MaxCalls == 3
CallStatuses == {"running", "completed", "failed"}

deployFixed == <<coreVars, socketVars, retryVars, clockVars, unhandledRejections, seqVars,
                 agentVars>>

DeployInit ==
    /\ DeployIdle
    /\ SeqIdle
    /\ AgentIdle
    /\ CoreIdle
    /\ SocketIdle
    /\ RetryIdle
    /\ ClockIdle
    /\ unhandledRejections = 0

\* the module-level singleton of the process the caller runs in
isWebSocketManagerInitialized(p) == wsManagerInstance[p]

\* initializeServer, in the web server process: initWebSocketManager builds
\* the singleton of that process; a second call returns the existing one
InitializeServer ==
    /\ ~wsManagerInstance["web"]
    /\ wsManagerInstance' = [wsManagerInstance EXCEPT !["web"] = TRUE]
    /\ UNCHANGED <<statusCalls, statusEmits, deployFixed>>

\* updateHuntStatus(huntId, status, updates) called in process p: the row is
\* updated, and the status is broadcast if the singleton of p exists. The
\* web server serves requests and starts its Worker after initializeServer.
UpdateHuntStatusIn(p, status) ==
    /\ Len(statusCalls) < MaxCalls
    /\ p = "web" => wsManagerInstance["web"]
    /\ statusCalls' = Append(statusCalls, [proc |-> p, status |-> status])
    /\ statusEmits' = IF isWebSocketManagerInitialized(p)
                      THEN Append(statusEmits, [proc |-> p, status |-> status])
                      ELSE statusEmits
    /\ UNCHANGED <<wsManagerInstance, deployFixed>>

UpdateHuntStatus == \E p \in Processes, status \in CallStatuses : UpdateHuntStatusIn(p, status)

DeployNext ==
    \/ InitializeServer
    \/ UpdateHuntStatus

(***************************************************************************)
(* upsertAgent for the agents of two hunts                                 *)
(***************************************************************************)
AgentHunts == {"h1", "h2"}
ReportedIds == {"a1", "a2"}          \* agentId values the hunts' events carry
GeneratedAgentIds == {"g1"}          \* ids the store gives rows created without one
AgentStatuses == {"pending", "running", "completed", "failed"}

agentFixed == <<coreVars, socketVars, retryVars, clockVars, unhandledRejections, deployVars,
                seqVars>>

AgentInit ==
    /\ AgentIdle
    /\ DeployIdle
    /\ SeqIdle
    /\ CoreIdle
    /\ SocketIdle
    /\ RetryIdle
    /\ ClockIdle
    /\ unhandledRejections = 0

\* prisma.agent.upsert({where: {id}, update: data, create: {...data, id}})
\* with data = {huntId, ..., status}: the row of that id, of whichever hunt,
\* is written with the data of the call, or it is created
RowsAfterUpsert(rows, h, id, status) ==
    [a \in DOMAIN rows \cup {id} |->
        IF a = id THEN [huntId |-> h, status |-> status] ELSE rows[a]]

\* upsertAgent(huntId, agentData): upsert by the reported id, or a create
\* when the event carries no id
UpsertAgent ==
    \E h \in AgentHunts, id \in ReportedIds \cup {""}, status \in AgentStatuses :
        IF id # ""
        THEN /\ agentRows' = RowsAfterUpsert(agentRows, h, id, status)
             /\ lastUpsert' = [hunt |-> h, id |-> id]
             /\ UNCHANGED agentFixed
        ELSE \E g \in GeneratedAgentIds \ DOMAIN agentRows :
                /\ agentRows' = RowsAfterUpsert(agentRows, h, g, status)
                /\ lastUpsert' = [hunt |-> h, id |-> g]
                /\ UNCHANGED agentFixed

AgentNext == UpsertAgent

vars == <<parserVars, pmVars, pmLog, workerVars>>

PMSpec == PMInit /\ [][PMNext]_vars

WorkerSpec == WorkerInit /\ [][WorkerNext]_vars

ParserSpec == ParserInit /\ [][ParserNext]_vars

ControllerSpec == ControllerInit /\ [][ControllerNext]_vars

QueueSpec == QueueInit /\ [][QueueNext]_vars

SocketSpec == SocketInit /\ [][SocketNext]_vars

ClockSpec == ClockInit /\ [][ClockNext]_vars

RetrySpec == RetryInit /\ [][RetryNext]_vars

EventSpec == EventInit /\ [][EventNext]_vars

FaultSpec == FaultInit /\ [][FaultNext]_vars

SeveritySpec == SeverityInit /\ [][SeverityNext]_vars

DeploySpec == DeployInit /\ [][DeployNext]_vars

AgentSpec == AgentInit /\ [][AgentNext]_vars

\* the Worker under Node's event loop: a callback that is ready to run
\* (a settled await, an emitted event, an expired timer) does run
\* a chunk written by the process is delivered: of the actions of the Worker
\* only DeliverStdout takes such a step
ChunkDelivered ==
    /\ childState \in {"alive", "exited"}
    /\ output # <<>>
    /\ output' = Tail(output)

JobFairness ==
    /\ WF_vars(MainSetRunning) /\ WF_vars(MainSetPid)
    /\ WF_vars(MainCompletedFind) /\ WF_vars(MainCompletedUpdate)
    /\ WF_vars(MainFailedFind) /\ WF_vars(MainFailedUpdate)
    /\ WF_output(ChunkDelivered) /\ WF_vars(ProcessError)
    /\ WF_vars(RecordEvent) /\ WF_vars(AgentUpsert) /\ WF_vars(StatusUpdate)
    /\ WF_vars(JobProgress) /\ WF_vars(ErrorFailFind) /\ WF_vars(ErrorFailUpdate)
    /\ WF_vars(KillTimerTick) /\ WF_vars(KillTimerCallback)

JobFairSpec == EventInit /\ [][EventNext]_vars /\ JobFairness

Range(f) == {f[k] : k \in DOMAIN f}

\* C10: when the timer of a stop() has run and the process is still
\* running (it did not exit on the graceful signal), SIGKILL was sent.
C10_ForcefulKillAfterGrace ==
    (timerRan /\ childState = "alive") => "SIGKILL" \in Range(signals)

\* C11: no escalation to a forceful kill is pending for a process that has
\* exited: the timer of stop() is cancelled by the exit, and a stop() after
\* the exit arms none.
C11_NoEscalationAfterExit ==
    timerArmed => childState # "exited"

SigtermCount == Cardinality({k \in 1..Len(signals) : signals[k] = "SIGTERM"})

\* C12: stop() is idempotent: once stop() has been called, no step sends
\* another graceful signal, arms another timer or restarts the running one,
\* and a further stop() call changes nothing; at most one SIGTERM is sent.
C12_StopIdempotent ==
    [][/\ SigtermCount' <= 1
       /\ pmKilled =>
             /\ pmKilled'
             /\ SigtermCount' = SigtermCount
             /\ timerArmed' => timerArmed
             /\ timerLeft' <= timerLeft
             /\ StopCall => UNCHANGED pmVars]_vars

\* stop() was called twice, the process exiting in between
C12_Witness ==
    \E i, j, k \in 1..Len(pmLog) :
        i < j /\ j < k /\ pmLog[i] = "stop" /\ pmLog[j] = "exit" /\ pmLog[k] = "stop"

\* not-started -> running -> {exited | killed}
Rank(state) ==
    CASE state = "none" -> 0
      [] state \in {"alive", "spawnFailed"} -> 1
      [] OTHER -> 2

\* C13: start() on an instance that was already started throws and spawns
\* nothing, whether its process runs or has terminated; the instance never
\* returns to an earlier state.
C13_StartOnlyOnce ==
    [][/\ Rank(childState') >= Rank(childState)
       /\ pmKilled => pmKilled'
       /\ pmProcess # "null" =>
             /\ pmProcess' = pmProcess
             /\ childState' \in {childState, "exited", "errored"}
             /\ StartCall => /\ UNCHANGED pmVars
                             /\ pmLog' = Append(pmLog, "throw: Process already started")]_vars

\* start() was called again after the process had exited, and threw
C13_Witness ==
    \E i, j \in 1..Len(pmLog) :
        i < j /\ pmLog[i] = "exit" /\ pmLog[j] = "throw: Process already started"

(***************************************************************************)
(* Parser claims                                                           *)
(***************************************************************************)
InputLines == Split(input)
NonBlankLines == {k \in 1..Len(InputLines) : Trim(InputLines[k]) # <<>>}
TypesOf(evs) == [k \in 1..Len(evs) |-> evs[k].type]

\* the marker parseLine selects for a line (first in table order), 0 if none
MarkerIndex(line) ==
    LET hits == {k \in 1..Len(eventMarkers) : Includes(Trim(line), eventMarkers[k].marker)}
    IN  IF hits = {} THEN 0 ELSE Min(hits)

PayloadText(line) ==
    LET m == eventMarkers[MarkerIndex(line)].marker
        t == Trim(line)
    IN  Trim(SubSeq(t, IndexOf(t, m) + Len(m), Len(t)))

\* lines with a marker whose payload is missing or is not valid JSON
BadMarkerLines ==
    {k \in 1..Len(InputLines) :
        /\ MarkerIndex(InputLines[k]) # 0
        /\ (PayloadText(InputLines[k]) = <<>> \/ ~JsonValid(PayloadText(InputLines[k])))}

\* C6: after the parse() calls and flush(), the number of events equals the
\* number of non-blank lines of the concatenated input (one event per
\* non-blank line, none per blank line).
C6_OneEventPerNonBlankLine ==
    pstate = "flushed" => Len(events) = Cardinality(NonBlankLines)

\* C7: every line with a reserved marker whose payload is missing or not
\* valid JSON yields an event of the marker's type with an empty payload.
C7_BadPayloadYieldsEmptyEvent ==
    pstate = "flushed" =>
        \A k \in BadMarkerLines :
            \E n \in 1..Len(events) :
                /\ events[n].raw = Trim(InputLines[k])
                /\ events[n].type = markerToEventType(eventMarkers[MarkerIndex(InputLines[k])].name)
                /\ DOMAIN events[n].data = {}

\* the events of parsing the whole stream as one chunk, then flush()
WholeStreamEvents ==
    LET r == parse(<<>>, input)
    IN  r.events \o flush(r.buffer).events

\* C8: chunk-boundary independence: whatever the cuts, the chunks followed
\* by flush() give the same sequence of event types as the whole stream
\* as one chunk followed by flush().
C8_ChunkIndependence ==
    pstate = "flushed" => TypesOf(events) = TypesOf(WholeStreamEvents)

\* a stream cut inside a line, with two events, one of them from a marker
C8_Witness ==
    /\ pstate = "flushed"
    /\ midCut
    /\ Len(events) >= 2
    /\ \E n \in 1..Len(events) : events[n].type = "vulnerability_found"

\* lines without a marker that are a JSON object with a type member
TypedJsonLines ==
    {k \in 1..Len(InputLines) :
        /\ MarkerIndex(InputLines[k]) = 0
        /\ IsJsonObject(Trim(InputLines[k]))
        /\ "type" \in DOMAIN JsonObject(Trim(InputLines[k]))}

\* the type strings of the modelled lines, lower-cased, "-" replaced by "_",
\* and looked up in the enumeration of event types
ExpectedType ==
    [t \in {"Progress-Update", "LOG", "heartbeat", ""} |->
        CASE t = "Progress-Update" -> "progress_update"
          [] t = "LOG"             -> "log"
          [] OTHER                 -> "unknown"]

\* line k gave at least one event, and every event of that text has the type
\* expected for the line's type string and the line's object as payload
DecodedByType(k) ==
    LET text == Trim(InputLines[k])
        from == {n \in 1..Len(events) : events[n].raw = text}
    IN  /\ from # {}
        /\ \A n \in from :
              /\ events[n].type = ExpectedType[JsonObject(text)["type"]]
              /\ events[n].data = JsonObject(text)

ValidMarkerLines ==
    {k \in 1..Len(InputLines) :
        /\ MarkerIndex(InputLines[k]) # 0
        /\ PayloadText(InputLines[k]) # <<>>
        /\ JsonValid(PayloadText(InputLines[k]))}

\* the value a valid payload text denotes
PayloadValue(text) == IF IsJsonNull(text) THEN [json |-> "null"] ELSE JsonObject(text)

\* s can be obtained from t by leaving elements out
RECURSIVE IsSubsequence(_, _)
IsSubsequence(s, t) ==
    IF s = <<>> THEN TRUE
    ELSE IF t = <<>> THEN FALSE
    ELSE IF Head(s) = Head(t) THEN IsSubsequence(Tail(s), Tail(t))
    ELSE IsSubsequence(s, Tail(t))

\* C28: every line with a reserved marker followed by valid JSON yields an
\* event of the marker's mapped type with that JSON as payload, and the
\* events come in the order of their lines.
C28_MarkedJsonDecodedInOrder ==
    pstate = "flushed" =>
        /\ \A k \in ValidMarkerLines :
              \E n \in 1..Len(events) :
                  /\ events[n].raw = Trim(InputLines[k])
                  /\ events[n].type =
                        markerToEventType(eventMarkers[MarkerIndex(InputLines[k])].name)
                  /\ events[n].data = PayloadValue(PayloadText(InputLines[k]))
        /\ IsSubsequence([n \in 1..Len(events) |-> events[n].raw],
                         [k \in 1..Len(InputLines) |-> Trim(InputLines[k])])

(***************************************************************************)
(* Worker claims                                                           *)
(***************************************************************************)
EventHandlerInFlight == \E i \in 1..Len(handlers) : handlers[i].kind \in {"stdout", "exit"}
EventBroadcasts(msgs) == SelectSeq(msgs, LAMBDA m : m.ch = "hunt:event")

\* C1: when the worker writes the terminal status of the job, no parsed
\* event is still being handled, and after it no event of the hunt is
\* persisted or broadcast.
C1_EventsBeforeTerminalStatus ==
    [][ /\ (mainPc # "done" /\ mainPc' = "done") => ~EventHandlerInFlight
        /\ mainPc = "done" =>
              /\ huntEvents' = huntEvents
              /\ EventBroadcasts(broadcasts') = EventBroadcasts(broadcasts) ]_vars

AddVulnerabilityInProgress ==
    \E i \in 1..Len(handlers) : handlers[i].pc \in {"vulnCreate", "vulnFind", "vulnUpdate"}
CallsWithSeverity(sev) == Cardinality({k \in 1..Len(vulnRows) : vulnRows[k] = sev})

\* C2: once all addVulnerability calls have returned, vulnerabilityCount
\* equals the number of calls and each severity counter the number of
\* calls made with that severity.
C2_NoLostIncrement ==
    ~AddVulnerabilityInProgress =>
        /\ hunt.vulnerabilityCount = Len(vulnRows)
        /\ \A sev \in DOMAIN SeverityField :
              hunt[SeverityField[sev]] = CallsWithSeverity(sev)

\* C3: once the status of the hunt is completed, failed or stopped no
\* step changes it.
C3_TerminalStatusAbsorbing ==
    [][hunt.status \in TerminalStatuses => hunt'.status = hunt.status]_vars

\* C4: when stopHunt succeeded while the worker held the running process,
\* the worker has called stop() on the ProcessManager by the time its job
\* is over (it does not call it afterwards).
C4_WorkerStopsProcess ==
    (stopHeld /\ mainPc = "done") => pmKilled

\* C5: the hunt becomes completed only when the process exited with code 0.
C5_CompletedOnlyOnExitZero ==
    [][(hunt.status # "completed" /\ hunt'.status = "completed")
          => (childState = "exited" /\ pmExitCode = "0")]_vars

RECURSIVE Concat(_)
Concat(chunks) == IF chunks = <<>> THEN <<>> ELSE Head(chunks) \o Concat(Tail(chunks))

\* the lines of the process output that yield an event, in output order
OutputEvents ==
    LET r == parse(<<>>, Concat(script))
    IN  r.events \o flush(r.buffer).events
OutputPosition(raw) == Min({k \in 1..Len(OutputEvents) : OutputEvents[k].raw = raw})

\* C9: of two recorded events, the one that comes first in the process
\* output carries the smaller sequence number.
C9_SequenceFollowsOutputOrder ==
    \A a \in 1..Len(huntEvents), b \in 1..Len(huntEvents) :
        OutputPosition(huntEvents[a].raw) < OutputPosition(huntEvents[b].raw)
            => huntEvents[a].sequenceNumber < huntEvents[b].sequenceNumber


\* the process wrote one vulnerability line (and an unfinished line)
OneVulnerabilityScript == << <<"#", "V", "{", "h", "}", NL>>, <<"x">> >>

\* the worker read all of the output before the exit: the unfinished
\* line was in the buffer when the 'exit' listener flushed it
OutputReadBeforeExit ==
    \/ \E i \in 1..Len(handlers) : handlers[i].kind = "exit"
    \/ \E k \in 1..Len(huntEvents) : huntEvents[k].type = "log"

\* C19: a process that emits one vulnerability_found event and exits with
\* code 137 leaves the hunt, when its job has finished, failed, with
\* vulnerabilityCount 1 and an error.
C19_KilledAfterOneVulnerability ==
    (/\ script = OneVulnerabilityScript
     /\ OutputReadBeforeExit
     /\ pmExitCode = "137"
     /\ mainPc = "done"
     /\ stopPc = "idle")
    => /\ hunt.status = "failed"
       /\ hunt.vulnerabilityCount = 1
       /\ hunt.error # ""

C15_StopRejectsTerminalAndUnknown ==
    [][/\ (stopPc = "find" /\ stopPc' # "find") =>
             /\ (~huntExists \/ hunt.status \in TerminalStatuses) =>
                    (stopPc' = "rejected" /\ UNCHANGED <<hunt, jobState, broadcasts>>)
             /\ stopPc' # "rejected" =>
                    (huntExists /\ hunt.status \in {"pending", "running"})
       /\ (stopPc = "rejected" /\ stopPc' # "rejected") =>
             (stopPc' = "idle" /\ UNCHANGED <<hunt, jobState, broadcasts>>)
       /\ (stopPc' = "done" /\ stopPc # "done") => stopPc = "update"]_vars

\* stopHunt was rejected for a hunt the worker had completed
C15_Witness ==
    stopPc = "rejected" /\ huntExists /\ hunt.status = "completed"

\* C16: when stopHunt has succeeded for a hunt whose job was waiting when
\* it was called, the job is removed and no worker spawns a process or sets
\* the hunt running afterwards.
C16_StopBeforeStartPreventsRun ==
    [][(stopPc = "done" /\ stopJobState = "waiting") =>
          /\ jobState = "removed"
          /\ pmProcess' = pmProcess
          /\ hunt'.status = "running" => hunt.status = "running"]_vars

\* C17: after a failed attempt of processHuntJob the job is waiting for a
\* retry or, with the attempts used up, failed (a stopHunt may have removed
\* it): it is not completed.
C17_FailedAttemptRetriedOrFailed ==
    (mainPc = "done" /\ mainErr # "") =>
        jobState \in {"waiting", "delayed", "failed", "removed"}

FailedBroadcasts ==
    {k \in 1..Len(broadcasts) :
        broadcasts[k].ch = "hunt:status" /\ broadcasts[k].status = "failed"}

\* C20: a hunt stored as failed has its error stored, and every status
\* broadcast that carries failed carries a non-empty error.
C20_FailedCarriesError ==
    /\ (huntExists /\ hunt.status = "failed") => hunt.error # ""
    /\ \A k \in FailedBroadcasts : broadcasts[k].error # ""

\* the worker has failed the hunt and broadcast it
C20_Witness ==
    FailedBroadcasts # {} /\ hunt.status = "failed" /\ mainPc = "done"

(***************************************************************************)
(* Queue claims                                                            *)
(***************************************************************************)
InFlight(h) ==
    {j \in DOMAIN qJobs : qJobs[j].huntId = h /\ qJobs[j].state \in {"waiting", "active"}}

\* C18: however often a hunt is enqueued, the queue holds at most one job
\* of the hunt that is waiting or active, so at most one execution of
\* processHuntJob is active for the hunt.
C18_OneJobInFlightPerHunt ==
    \A h \in QueueHunts :
        /\ Cardinality(InFlight(h)) <= 1
        /\ Cardinality({j \in ActiveJobs : qJobs[j].huntId = h}) <= 1

\* a hunt was enqueued again while its job was being executed
C18_Witness ==
    \E h \in QueueHunts :
        qAdds[h] >= 2 /\ h \in DOMAIN qJobs /\ qJobs[h].state = "active"


(***************************************************************************)
(* Socket claims                                                           *)
(***************************************************************************)
\* the numbers of the messages published while s was subscribed to their hunt
PublishedWhileSubscribed(s) ==
    SelectSeq([n \in 1..Len(published) |-> n], LAMBDA n : s \in published[n].subscribers)

\* C22: a connection receives exactly the messages published while it was
\* subscribed to their hunt, in order: one that subscribes after k messages
\* were published receives none of those k.
C22_LateSubscriberGetsNoBacklog ==
    \A s \in Sockets : received[s] = PublishedWhileSubscribed(s)

\* of two connections subscribed to the hunt of the fourth message, one
\* was subscribed for all four messages and holds them, the other
\* subscribed after the third and holds the fourth only
C22_Witness ==
    \E s \in Sockets, t \in Sockets :
        /\ Len(published) = 4
        /\ \A n \in 1..3 : s \notin published[n].subscribers
        /\ \A n \in 1..4 : t \in published[n].subscribers
        /\ s \in published[4].subscribers
        /\ received[s] = <<4>>
        /\ received[t] = <<1, 2, 3, 4>>

\* C23: whatever the message (event, status, vulnerability, agent, log), a
\* connection is delivered a message only in the step that publishes it,
\* and only when it is then subscribed to the message's hunt.
C23_OnlyWhileSubscribed ==
    [][\A s \in Sockets :
          received'[s] # received[s] =>
              /\ Len(published') = Len(published) + 1
              /\ lastEmit'.name \in EmitNames
              /\ s \in rooms[lastEmit'.hunt]
              /\ received'[s] = Append(received[s], Len(published'))]_vars

\* a connected socket got the first message; it was not subscribed to the
\* hunt of the second and did not get it, another socket got both
C23_Witness ==
    \E s \in sockets, t \in sockets :
        /\ Len(published) = 2
        /\ s \in published[1].subscribers
        /\ s \notin rooms[lastEmit.hunt]
        /\ received[s] = <<1>>
        /\ received[t] = <<1, 2>>

\* C24: the connection table holds exactly the connected sockets,
\* getConnectionCount() is their number, and a socket that is not connected
\* is in no hunt's room.
C24_ConnectionTableExact ==
    /\ connections = sockets
    /\ getConnectionCount = Cardinality(sockets)
    /\ \A h \in SocketHunts : rooms[h] \subseteq sockets

\* a socket that was subscribed and received a message has disconnected,
\* another is still connected
C24_Witness ==
    \E s \in Sockets \ sockets :
        /\ received[s] # <<>>
        /\ sockets # {}
        /\ getConnectionCount = 1

(***************************************************************************)
(* Timestamp claims                                                        *)
(***************************************************************************)
\* C26: startedAt is stamped by the first update to running only: once it
\* is set no call of updateHuntStatus changes it, so that the duration of
\* the terminal update is measured from the first start.
C26_StartedAtStampedOnce ==
    [][stamps.startedAt # NoTime => stamps'.startedAt = stamps.startedAt]_vars

(***************************************************************************)
(* Retry claims                                                            *)
(***************************************************************************)
\* C25: at any time at most one process spawned for the hunt is alive,
\* whatever the attempts of its job and the cleanup after a failure.
C25_OneLiveProcessPerHunt == Cardinality(LiveProcs) <= 1

(***************************************************************************)
(* Event and fault claims                                                  *)
(***************************************************************************)
\* C21: no error raised while a 'stdout' or 'exit' listener handles an event
\* leaves the listener as a rejection nobody handles.
C21_ListenerErrorsContained == unhandledRejections = 0

\* the agent events of the process output, in output order
AgentEventIndexes == {k \in 1..Len(OutputEvents) : OutputEvents[k].type \in AgentTypes}
ReportedAgents == {Field(OutputEvents[k].data, "agentId") : k \in AgentEventIndexes}
LatestStatus(id) ==
    AgentStatusOf(OutputEvents[Max({k \in AgentEventIndexes :
                                       Field(OutputEvents[k].data, "agentId") = id})].type)

\* every event of the output has been handled and no listener is running
AllEventsHandled == handlers = <<>> /\ Len(huntEvents) = Len(OutputEvents)

\* C29: when the agent events of the output have been handled there is one
\* agent node for each agent id reported, and it holds the status of the
\* last event of the output for that id.
C29_AgentHoldsLatestStatus ==
    AllEventsHandled =>
        /\ DOMAIN agents = ReportedAgents
        /\ \A id \in ReportedAgents : agents[id] = LatestStatus(id)

\* C30: the progress of the hunt is a number from 0 to 100 at any time,
\* whatever the progress events carry.
C30_ProgressInRange == hunt.progress \in 0..100

\* the events carrying 150 and a text have been handled and the progress
\* is the 45 of the event before them
C30_Witness ==
    /\ handlers = <<>>
    /\ \E k \in 1..Len(huntEvents) : huntEvents[k].raw = <<"#", "P", "{", "o", "}">>
    /\ \E k \in 1..Len(huntEvents) : huntEvents[k].raw = <<"#", "P", "{", "q", "}">>
    /\ hunt.progress = 45

(***************************************************************************)
(* ProcessManager status claims                                            *)
(***************************************************************************)
\* C36: once the exit of the process has been reported isRunning() is
\* false, whether the process exited with a code or was ended by a signal.
C36_NotRunningAfterExit ==
    childState = "exited" => ~isRunning

(***************************************************************************)
(* Counter claims                                                          *)
(***************************************************************************)
SeverityCounterSum ==
    hunt.criticalCount + hunt.highCount + hunt.mediumCount + hunt.lowCount + hunt.infoCount

\* C40: whenever no addVulnerability call is in progress, vulnerabilityCount
\* equals the sum of the five severity counters, whatever severity the
\* finding events carry.
C40_CountIsSumOfSeverities ==
    ~AddVulnerabilityInProgress => hunt.vulnerabilityCount = SeverityCounterSum

VulnerabilityBroadcasts == SelectSeq(broadcasts, LAMBDA m : m.ch = "hunt:vulnerability")

\* C32: addVulnerability is all-or-nothing: when no call is executing (a call
\* that failed has ended too) vulnerabilityCount equals the number of stored
\* findings, and no finding is broadcast before its row and its counter
\* increment are both applied.
C32_FindingAndCountersTogether ==
    /\ ~AddVulnerabilityInProgress => hunt.vulnerabilityCount = Len(vulnRows)
    /\ Len(VulnerabilityBroadcasts) <= hunt.vulnerabilityCount
    /\ Len(VulnerabilityBroadcasts) <= Len(vulnRows)

(***************************************************************************)
(* Broadcast order claims                                                  *)
(***************************************************************************)
StatusBroadcasts == SelectSeq(broadcasts, LAMBDA m : m.ch = "hunt:status")

\* C38: the status broadcasts of the hunt come in lifecycle order: no
\* 'pending' broadcast is emitted after a 'running' one.
C38_NoPendingAfterRunning ==
    \A i, j \in 1..Len(StatusBroadcasts) :
        i < j => ~(StatusBroadcasts[i].status = "running"
                   /\ StatusBroadcasts[j].status = "pending")

(***************************************************************************)
(* Deployment claims                                                       *)
(***************************************************************************)
\* C31: every updateHuntStatus call that has updated the hunt has produced
\* exactly one status broadcast, in whichever process it was made.
C31_OneBroadcastPerUpdate ==
    statusEmits = statusCalls

(***************************************************************************)
(* Subscription claims                                                     *)
(***************************************************************************)
\* C33: when a connection subscribes to a hunt the server sends that
\* connection an acknowledgement of the subscription: the step that puts
\* the socket in the room of the hunt also sends the socket a message.
C33_SubscribeAcknowledged ==
    [][\A s \in Sockets, h \in SocketHunts :
          (s \notin rooms[h] /\ s \in rooms'[h]) =>
              Len(received'[s]) = Len(received[s]) + 1]_vars

(***************************************************************************)
(* Process table claims                                                    *)
(***************************************************************************)
\* C37: every process spawned for the hunt that is still alive has the
\* entry of the hunt in activeProcesses: the entry is removed only for a
\* process that has exited.
C37_LiveProcessTracked ==
    \A a \in LiveProcs : tracked = a

(***************************************************************************)
(* Termination claims                                                      *)
(***************************************************************************)
\* C34: whenever the process of a job has exited or failed to spawn,
\* processHuntJob eventually returns and the hunt is completed or failed.
C34_JobEventuallyFinishes ==
    (childState \in {"exited", "errored"})
        ~> (mainPc = "done" /\ hunt.status \in {"completed", "failed"})

(***************************************************************************)
(* Sequence number claims                                                  *)
(***************************************************************************)
\* C35: no two persisted events of the hunt carry the same sequence
\* number, whichever attempts of the job recorded them.
C35_SequenceNumbersDistinct ==
    \A i, j \in 1..Len(persisted) :
        i # j => persisted[i].sequenceNumber # persisted[j].sequenceNumber

(***************************************************************************)
(* Agent table claims                                                      *)
(***************************************************************************)
\* C39: upsertAgent(huntId, node) changes only agent nodes of hunt huntId:
\* the node of another hunt is left as it was, with its hunt.
C39_OtherHuntsAgentsUntouched ==
    [][\A a \in DOMAIN agentRows :
          agentRows[a].huntId # lastUpsert'.hunt =>
              (a \in DOMAIN agentRows' /\ agentRows'[a] = agentRows[a])]_vars

=========================================================================
